---------------------------- MODULE Spec2Model ----------------------------
(***************************************************************************)
(* A model of mcp-gateway: the incremental JSON-RPC framer/parser          *)
(* (parser.py), the regex scanner (scanner.py) and the two stdio pumps of  *)
(* the interposition engine (gateway.py) with the audit writer (logger.py).*)
(*                                                                         *)
(* Text is modelled as sequences of one-character strings, so framing,     *)
(* JSON decoding, matching and replacement are computed character by       *)
(* character as the code computes them.                                    *)
(***************************************************************************)
EXTENDS Integers, Sequences, FiniteSets, TLC

VARIABLES
    \* ---- MessageParser under test (specification SpecFeed)
    input,          \* the whole stream S handed to the parser
    pos,            \* number of characters of S fed so far
    buffer,         \* MessageParser.buffer
    emitted,        \* concatenation of the lists returned by the feed calls
    framed,         \* the substrings _extract_message cut out so far
    cut_in_string,  \* some chunk ended inside a string literal
    cut_in_escape,  \* some chunk ended right after an unescaped backslash
    fed_whole,      \* the last feed call was handed the whole of S at once
    \* ---- the gateway's configuration (GatewayConfig)
    config,
    \* ---- SecurityScanner under test (specification SpecScan)
    scan_input,     \* the ParsedMessage handed to scan_message
    scan_direction, \* "client->server" or "server->client"
    scan_output,    \* the ScanResult returned
    scanned,        \* scan_message has returned
    rescanned,      \* scan_message has returned a second time, for the same message
    alerted,        \* send_alert has returned
    alerts,         \* the transports send_alert has called, in call order (in Spec: the webhook posts)
    \* ---- the running gateway (specification Spec)
    env,            \* what the gateway runs in: can the audit file be appended to, do webhook posts fail
    todo,           \* per pump: the effects left of the iteration of its while loop
    eof,            \* per pump: readline returned "" and the loop was left
    nread,          \* per pump: the lines read so far
    parser_buffer,  \* client_parser.buffer and server_parser.buffer
    decoded,        \* per pump: the messages its parser returned, each with its scan result
    stdout,         \* what was written to sys.stdout, in the order of the write calls
    flushed,        \* how much of it has left the buffer of sys.stdout for the client
    child_stdin,    \* what was written to server_process.stdin
    audit_log,      \* the lines of the audit file
    \* ---- MetricsCollector shared by the two pumps (specification SpecMetrics)
    metrics,        \* MetricsCollector.metrics, counter by counter
    counting,       \* per pump: the counters it has still to update for the line it took
    loaded,         \* per pump: the value it read of the counter it is updating, -1 before the read
    recorded,       \* per pump: the calls of record_message and record_violation it has begun
    \* ---- the life of a gateway process (specification SpecLife)
    main_pc,        \* where the main task is in start()
    child,          \* the server process: "none", "running" or "exited"
    child_stays,    \* the child runs for as long as its stdin stays open
    client_open,    \* the client has not closed the gateway's stdin
    pump,           \* per pump thread: "unstarted", "running", "ended" (loop left) or "failed" (exception caught)
    to_gateway,     \* lines the client wrote that the client->server pump has not read
    from_child,     \* lines the child wrote that the server->client pump has not read
    written,        \* per peer: the lines it has written in all
    handled,        \* per pump: the lines it has processed
    leaving,        \* how start() is being left: "none", "return", "raise" or "interrupt"
    main_log,       \* what the main task logged: "error" (logger.error), "shutdown" (_cleanup ran)
    signals,        \* the signals _cleanup sent to the child: "terminate", "kill"
    exit_code       \* the exit status of the gateway process, -1 while it runs

feedVars == <<input, pos, buffer, emitted, framed, cut_in_string, cut_in_escape, fed_whole>>
scanVars == <<scan_input, scan_direction, scan_output, scanned, rescanned, alerted, alerts>>
gwVars == <<env, todo, eof, nread, parser_buffer, decoded, stdout, flushed, child_stdin, audit_log>>
metricsVars == <<metrics, counting, loaded, recorded>>
endVars == <<leaving, main_log, signals, exit_code>>
lifeVars == <<main_pc, child, child_stays, client_open, pump, to_gateway, from_child, written, handled, endVars>>
vars == <<feedVars, config, scanVars, gwVars, metricsVars, lifeVars>>

-----------------------------------------------------------------------------
(* Characters and JSON text                                                *)

Q  == "\""
BS == "\\"
NL == "\n"

W_jsonrpc == <<"j", "s", "o", "n", "r", "p", "c">>
W_2_0     == <<"2", ".", "0">>
W_id      == <<"i", "d">>
W_method  == <<"m", "e", "t", "h", "o", "d">>
W_params  == <<"p", "a", "r", "a", "m", "s">>
W_result  == <<"r", "e", "s", "u", "l", "t">>
W_error   == <<"e", "r", "r", "o", "r">>
W_code    == <<"c", "o", "d", "e">>
W_message == <<"m", "e", "s", "s", "a", "g", "e">>
W_null    == <<"n", "u", "l", "l">>
W_true    == <<"t", "r", "u", "e">>
W_false   == <<"f", "a", "l", "s", "e">>

Digits == {"0", "1", "2", "3", "4", "5", "6", "7", "8", "9"}

\* str.isspace() on the characters of the model's alphabet
IsSpace(c) == c \in {" ", "\n", "\t", "\r"}

\* s[i..] starts with the word w
StartsWith(s, i, w) ==
    /\ i + Len(w) - 1 <= Len(s)
    /\ \A k \in 1..Len(w) : s[i + k - 1] = w[k]

-----------------------------------------------------------------------------
(* json.loads, restricted to objects, arrays, strings, integers and the    *)
(* three literals.  A decoded value is [t, v]: t the JSON type, v its      *)
(* content (characters for a string or an integer literal, members for an  *)
(* object, elements for an array).  A parse step returns [ok, val, next].  *)

JNull     == [t |-> "null", v |-> <<>>]
JStr(cs)  == [t |-> "str",  v |-> cs]
JInt(cs)  == [t |-> "int",  v |-> cs]
JBool(cs) == [t |-> "bool", v |-> cs]
JObj(ms)  == [t |-> "obj",  v |-> ms]
JArr(es)  == [t |-> "arr",  v |-> es]

Fail == [ok |-> FALSE, val |-> JNull, next |-> 0]
Ok(val, next) == [ok |-> TRUE, val |-> val, next |-> next]

RECURSIVE SkipWs(_, _)
SkipWs(s, i) == IF i <= Len(s) /\ IsSpace(s[i]) THEN SkipWs(s, i + 1) ELSE i

\* the character an escape sequence \c stands for ("" when \c is no escape)
Unescape(c) ==
    CASE c = Q   -> Q
      [] c = BS  -> BS
      [] c = "/" -> "/"
      [] c = "n" -> "\n"
      [] c = "t" -> "\t"
      [] c = "r" -> "\r"
      [] OTHER   -> ""

\* scanstring: s[i-1] was the opening quote; acc is the content so far
RECURSIVE ScanString(_, _, _)
ScanString(s, i, acc) ==
    IF i > Len(s) THEN Fail
    ELSE IF s[i] = Q THEN Ok(JStr(acc), i + 1)
    ELSE IF s[i] = BS THEN
        IF i + 1 > Len(s) \/ Unescape(s[i + 1]) = "" THEN Fail
        ELSE ScanString(s, i + 2, Append(acc, Unescape(s[i + 1])))
    ELSE IF s[i] \in {"\n", "\t", "\r"} THEN Fail     \* strict: no control characters
    ELSE ScanString(s, i + 1, Append(acc, s[i]))

RECURSIVE ScanDigits(_, _)
ScanDigits(s, i) == IF i <= Len(s) /\ s[i] \in Digits THEN ScanDigits(s, i + 1) ELSE i

\* an integer literal -?(0|[1-9][0-9]*)
ScanInt(s, i) ==
    LET d == IF s[i] = "-" THEN i + 1 ELSE i
        e == IF d <= Len(s) /\ s[d] = "0" THEN d + 1 ELSE ScanDigits(s, d)
    IN  IF e = d THEN Fail ELSE Ok(JInt(SubSeq(s, i, e - 1)), e)

RECURSIVE ScanValue(_, _), ScanMembers(_, _, _), ScanElements(_, _, _)

\* JSONObject after a member (e is the index after it and the whitespace
\* that follows): the closing brace, or a comma and the next member
MemberNext(s, ms, e) ==
    IF e > Len(s) THEN Fail
    ELSE IF s[e] = "}" THEN Ok(JObj(ms), e + 1)
    ELSE IF s[e] = "," THEN ScanMembers(s, SkipWs(s, e + 1), ms)
    ELSE Fail

\* JSONObject with the key k and the value x of a member scanned
MemberValue(s, acc, k, x) ==
    IF ~x.ok THEN Fail
    ELSE MemberNext(s, Append(acc, [key |-> k.val.v, val |-> x.val]), SkipWs(s, x.next))

\* JSONObject with the key k of a member scanned: c must be the index of a colon
MemberColon(s, acc, k, c) ==
    IF c > Len(s) \/ s[c] # ":" THEN Fail
    ELSE MemberValue(s, acc, k, ScanValue(s, SkipWs(s, c + 1)))

MemberKey(s, acc, k) ==
    IF ~k.ok THEN Fail ELSE MemberColon(s, acc, k, SkipWs(s, k.next))

\* JSONObject: s[i] must open the next key; acc are the members so far
ScanMembers(s, i, acc) ==
    IF i > Len(s) \/ s[i] # Q THEN Fail
    ELSE MemberKey(s, acc, ScanString(s, i + 1, <<>>))

\* JSONArray after an element: the closing bracket, or a comma and the next element
ElementNext(s, es, e) ==
    IF e > Len(s) THEN Fail
    ELSE IF s[e] = "]" THEN Ok(JArr(es), e + 1)
    ELSE IF s[e] = "," THEN ScanElements(s, SkipWs(s, e + 1), es)
    ELSE Fail

ElementValue(s, acc, x) ==
    IF ~x.ok THEN Fail ELSE ElementNext(s, Append(acc, x.val), SkipWs(s, x.next))

\* JSONArray: s[i] starts the next element
ScanElements(s, i, acc) == ElementValue(s, acc, ScanValue(s, i))

\* scan_once: the value starting at s[i]
ScanValue(s, i) ==
    IF i > Len(s) THEN Fail
    ELSE IF s[i] = Q THEN ScanString(s, i + 1, <<>>)
    ELSE IF s[i] = "{" THEN
        LET j == SkipWs(s, i + 1) IN
        IF j <= Len(s) /\ s[j] = "}" THEN Ok(JObj(<<>>), j + 1)
        ELSE ScanMembers(s, j, <<>>)
    ELSE IF s[i] = "[" THEN
        LET j == SkipWs(s, i + 1) IN
        IF j <= Len(s) /\ s[j] = "]" THEN Ok(JArr(<<>>), j + 1)
        ELSE ScanElements(s, j, <<>>)
    ELSE IF StartsWith(s, i, W_null)  THEN Ok(JNull, i + 4)
    ELSE IF StartsWith(s, i, W_true)  THEN Ok(JBool(W_true), i + 4)
    ELSE IF StartsWith(s, i, W_false) THEN Ok(JBool(W_false), i + 5)
    ELSE IF s[i] = "-" \/ s[i] \in Digits THEN ScanInt(s, i)
    ELSE Fail

\* the value x decoded from s is followed by nothing but whitespace
WholeText(s, x) == IF x.ok /\ SkipWs(s, x.next) = Len(s) + 1 THEN x ELSE Fail

\* json.loads(message): one value, surrounded by optional whitespace
json_loads(s) == WholeText(s, ScanValue(s, SkipWs(s, 1)))

\* "key in data" and data[key] (the last member of that name wins)
HasKey(obj, key) == \E k \in 1..Len(obj.v) : obj.v[k].key = key
GetKey(obj, key) ==
    LET K == {k \in 1..Len(obj.v) : obj.v[k].key = key}
    IN  obj.v[CHOOSE k \in K : \A j \in K : j <= k].val

-----------------------------------------------------------------------------
(* parser.py: the pydantic models and MessageParser                        *)

\* id: int | str | None
ValidId(x) == x.t \in {"int", "str", "null", "bool"}
\* the value pydantic stores for an id (a bool is taken as the int 1 or 0)
IdValue(x) == IF x.t = "bool" THEN JInt(IF x.v = W_true THEN <<"1">> ELSE <<"0">>) ELSE x

\* JsonRpcRequest(**data) validates
ValidRequest(data) ==
    /\ GetKey(data, W_method).t = "str"
    /\ HasKey(data, W_id) => ValidId(GetKey(data, W_id))
    /\ HasKey(data, W_params) => GetKey(data, W_params).t \in {"obj", "arr", "null"}

\* JsonRpcError(**error) validates
ValidError(e) ==
    /\ e.t = "obj"
    /\ HasKey(e, W_code)    /\ GetKey(e, W_code).t = "int"
    /\ HasKey(e, W_message) /\ GetKey(e, W_message).t = "str"

\* JsonRpcErrorResponse(**data) validates (id is a required field)
ValidErrorResponse(data) ==
    /\ HasKey(data, W_id) /\ ValidId(GetKey(data, W_id))
    /\ ValidError(GetKey(data, W_error))

\* JsonRpcResponse(**data) validates (id is a required field)
ValidResponse(data) == HasKey(data, W_id) /\ ValidId(GetKey(data, W_id))

ParsedMessage(type, raw, method, id) ==
    [message_type |-> type, raw_message |-> raw, method |-> method, message_id |-> id]

NoMessage == ParsedMessage("none", <<>>, JNull, JNull)

\* the id of the ParsedMessage built from data
IdOf(data) == IF HasKey(data, W_id) THEN IdValue(GetKey(data, W_id)) ELSE JNull

\* a check that takes any object, whatever its jsonrpc member
IsAnyObject(data) == data.t = "obj"

\* isinstance(data, dict) and data.get("jsonrpc") == "2.0"
IsJsonRpc2(data) ==
    /\ data.t = "obj"
    /\ HasKey(data, W_jsonrpc)
    /\ GetKey(data, W_jsonrpc).t = "str"
    /\ GetKey(data, W_jsonrpc).v = W_2_0

\* a parse_message that looks for result before error
ParseDecodedResultFirst(message, d) ==
    IF ~d.ok THEN [status |-> "none", msg |-> NoMessage]
    ELSE IF ~IsJsonRpc2(d.val) THEN [status |-> "none", msg |-> NoMessage]
    ELSE IF HasKey(d.val, W_method) THEN
        IF ~ValidRequest(d.val) THEN [status |-> "raise", msg |-> NoMessage]
        ELSE [status |-> "ok",
              msg |-> ParsedMessage(IF HasKey(d.val, W_id) THEN "request" ELSE "notification",
                                    message, GetKey(d.val, W_method), IdOf(d.val))]
    ELSE IF HasKey(d.val, W_result) THEN
        IF ~ValidResponse(d.val) THEN [status |-> "raise", msg |-> NoMessage]
        ELSE [status |-> "ok", msg |-> ParsedMessage("response", message, JNull, IdOf(d.val))]
    ELSE IF HasKey(d.val, W_error) THEN
        IF ~ValidErrorResponse(d.val) THEN [status |-> "raise", msg |-> NoMessage]
        ELSE [status |-> "ok", msg |-> ParsedMessage("error", message, JNull, IdOf(d.val))]
    ELSE [status |-> "none", msg |-> NoMessage]

\* MessageParser.parse_message after json.loads returned d
ParseDecoded(message, d) ==
    IF ~d.ok THEN [status |-> "none", msg |-> NoMessage]
    ELSE IF ~IsJsonRpc2(d.val) THEN [status |-> "none", msg |-> NoMessage]
    ELSE IF HasKey(d.val, W_method) THEN
        IF ~ValidRequest(d.val) THEN [status |-> "raise", msg |-> NoMessage]
        ELSE [status |-> "ok",
              msg |-> ParsedMessage(IF HasKey(d.val, W_id) THEN "request" ELSE "notification",
                                    message, GetKey(d.val, W_method), IdOf(d.val))]
    ELSE IF HasKey(d.val, W_error) THEN
        IF ~ValidErrorResponse(d.val) THEN [status |-> "raise", msg |-> NoMessage]
        ELSE [status |-> "ok", msg |-> ParsedMessage("error", message, JNull, IdOf(d.val))]
    ELSE IF HasKey(d.val, W_result) THEN
        IF ~ValidResponse(d.val) THEN [status |-> "raise", msg |-> NoMessage]
        ELSE [status |-> "ok", msg |-> ParsedMessage("response", message, JNull, IdOf(d.val))]
    ELSE [status |-> "none", msg |-> NoMessage]

\* MessageParser.parse_message: status "ok" with the message, "none" for a
\* None return, "raise" when the pydantic constructor raises
parse_message(message) == ParseDecoded(message, json_loads(message))

\* str.lstrip()
RECURSIVE FirstNonSpace(_, _)
FirstNonSpace(s, i) == IF i <= Len(s) /\ IsSpace(s[i]) THEN FirstNonSpace(s, i + 1) ELSE i
lstrip(s) == SubSeq(s, FirstNonSpace(s, 1), Len(s))

\* a framer that takes any closing brace outside a string for the end of
\* the object
ScanStepShallow(st, b, i) ==
    IF st.end # 0 THEN st
    ELSE IF st.escape THEN [st EXCEPT !.escape = FALSE]
    ELSE IF b[i] = BS THEN [st EXCEPT !.escape = TRUE]
    ELSE IF b[i] = Q THEN [st EXCEPT !.in_string = ~st.in_string]
    ELSE IF st.in_string THEN st
    ELSE IF b[i] = "{" THEN [st EXCEPT !.depth = st.depth + 1]
    ELSE IF b[i] = "}" THEN [st EXCEPT !.depth = 0, !.end = i]
    ELSE st

\* one iteration of the for loop of _extract_message, on character b[i];
\* end is the index at which the loop returned (0 while it is running)
ScanStep(st, b, i) ==
    IF st.end # 0 THEN st
    ELSE IF st.escape THEN [st EXCEPT !.escape = FALSE]
    ELSE IF b[i] = BS THEN [st EXCEPT !.escape = TRUE]
    ELSE IF b[i] = Q THEN [st EXCEPT !.in_string = ~st.in_string]
    ELSE IF st.in_string THEN st
    ELSE IF b[i] = "{" THEN [st EXCEPT !.depth = st.depth + 1]
    ELSE IF b[i] = "}" THEN
        IF st.depth - 1 = 0 THEN [st EXCEPT !.depth = 0, !.end = i]
        ELSE [st EXCEPT !.depth = st.depth - 1]
    ELSE st

\* the iterations lo..hi of that loop, from loop state st; the range is
\* halved, and the first half is finished before the second is entered, so
\* that evaluation depth grows with the logarithm of the length
RECURSIVE ScanRange(_, _, _, _)
ScanRange(st, b, lo, hi) ==
    IF lo > hi THEN st
    ELSE IF lo = hi THEN ScanStep(st, b, lo)
    ELSE LET mid  == (lo + hi) \div 2
             left == ScanRange(st, b, lo, mid)
         IN  IF left.end # 0 THEN left ELSE ScanRange(left, b, mid + 1, hi)

\* the for loop of _extract_message over the whole of b
ScanObject(b) ==
    ScanRange([depth |-> 0, in_string |-> FALSE, escape |-> FALSE, end |-> 0], b, 1, Len(b))

\* a framer that forgets an incomplete object instead of keeping it buffered
ExtractForgetful(b, e) ==
    IF b = <<>> \/ e = 0 THEN [found |-> FALSE, message |-> <<>>, remaining |-> <<>>]
    ELSE [found |-> TRUE, message |-> SubSeq(b, 1, e), remaining |-> SubSeq(b, e + 1, Len(b))]

\* the returns of _extract_message: b is the stripped buffer, e the index at
\* which the for loop returned (0: it ran to the end)
ExtractAt(b, e) ==
    IF b = <<>> THEN [found |-> FALSE, message |-> <<>>, remaining |-> <<>>]
    ELSE IF e = 0 THEN [found |-> FALSE, message |-> <<>>, remaining |-> b]
    ELSE [found |-> TRUE, message |-> SubSeq(b, 1, e), remaining |-> SubSeq(b, e + 1, Len(b))]

ExtractFrom(b) == ExtractAt(b, ScanObject(b).end)

\* MessageParser._extract_message
extract_message(buf) == ExtractFrom(lstrip(buf))

\* the while loop of MessageParser.feed: messages are the ParsedMessages
\* appended, frames the substrings extracted, raised the substrings whose
\* parse raised (each is reported with print)
RECURSIVE FeedLoop(_, _, _, _)

\* a feed that returns after the first substring it framed
FeedParsedOnce(x, messages, frames, raised, p) ==
    [buffer   |-> x.remaining,
     messages |-> IF p.status = "ok" THEN Append(messages, p.msg) ELSE messages,
     frames   |-> Append(frames, x.message),
     raised   |-> IF p.status = "raise" THEN Append(raised, x.message) ELSE raised]

\* the rest of an iteration, parse_message having returned p for the frame x
FeedParsed(x, messages, frames, raised, p) ==
    FeedLoop(x.remaining,
             IF p.status = "ok" THEN Append(messages, p.msg) ELSE messages,
             Append(frames, x.message),
             IF p.status = "raise" THEN Append(raised, x.message) ELSE raised)

\* the rest of an iteration, _extract_message having returned x
FeedFrame(messages, frames, raised, x) ==
    IF ~x.found
    THEN [buffer |-> x.remaining, messages |-> messages, frames |-> frames, raised |-> raised]
    ELSE FeedParsed(x, messages, frames, raised, parse_message(x.message))

FeedLoop(buf, messages, frames, raised) ==
    IF buf = <<>> THEN [buffer |-> buf, messages |-> messages, frames |-> frames, raised |-> raised]
    ELSE FeedFrame(messages, frames, raised, extract_message(buf))

\* MessageParser.feed(data) on a parser whose buffer is buf
feed(buf, data) == FeedLoop(buf \o data, <<>>, <<>>, <<>>)

-----------------------------------------------------------------------------
(* config.py: the fields of GatewayConfig the model reads                  *)

\* ScanRule; the rules of the model are described as "#<name>"
ScanRule(name, pattern, action, severity) ==
    [name |-> name, description |-> <<"#">> \o name, pattern |-> pattern,
     action |-> action, severity |-> severity, enabled |-> TRUE]

\* ScanningConfig with the given rules and the defaults of the other fields
ScanningConfig(rules) ==
    [enabled |-> TRUE, rules |-> rules, scan_request |-> TRUE, scan_response |-> TRUE]

\* GatewayConfig() with the given rules: AuditConfig.enabled defaults to
\* True, AlertingConfig.enabled to False with no webhook_url and no email
GatewayConfig(rules) ==
    [scanning |-> ScanningConfig(rules),
     auditing |-> [enabled |-> TRUE],
     alerting |-> [enabled |-> FALSE, webhook_url |-> FALSE, email |-> FALSE]]

DefaultConfig == GatewayConfig(<<>>)

(* scanner.py.  A rule's pattern is a non-empty literal, the subset of     *)
(* regular expressions modelled; it is compiled with re.IGNORECASE.        *)
(* Indices of a text are 1-based here; match_start and match_end are the   *)
(* 0-based offsets Python reports.                                         *)

UpperCase == <<"A", "C", "D", "E", "R", "T", "X", "Y">>
LowerCase == <<"a", "c", "d", "e", "r", "t", "x", "y">>

\* str.lower() on the letters of the model's alphabet
Lower(c) ==
    IF \E k \in 1..Len(UpperCase) : UpperCase[k] = c
    THEN LowerCase[CHOOSE k \in 1..Len(UpperCase) : UpperCase[k] = c]
    ELSE c

\* the compiled pattern pat matches text at index i
MatchesAt(text, i, pat) ==
    \A k \in 1..Len(pat) : text[i + k - 1] = pat[k] \/ Lower(text[i + k - 1]) = Lower(pat[k])

\* the least element of a non-empty set of indices, 0 for the empty set
First(C) == IF C = {} THEN 0 ELSE CHOOSE i \in C : \A j \in C : i <= j

\* pattern.search(text, from): index of the leftmost match at or after from
NextMatch(text, pat, from) ==
    First({i \in from..(Len(text) - Len(pat) + 1) : MatchesAt(text, i, pat)})

\* a re.Match: start(), end() and group(0)
Match(text, i, n) == [start |-> i - 1, end |-> i - 1 + n, group |-> SubSeq(text, i, i + n - 1)]

\* pattern.finditer(text): the non-overlapping matches, left to right
RECURSIVE FindIterFrom(_, _, _, _)
FindIterAt(text, pat, acc, i) ==
    IF i = 0 THEN acc
    ELSE FindIterFrom(text, pat, i + Len(pat), Append(acc, Match(text, i, Len(pat))))
FindIterFrom(text, pat, from, acc) == FindIterAt(text, pat, acc, NextMatch(text, pat, from))
finditer(text, pat) == FindIterFrom(text, pat, 1, <<>>)

\* s.find(old, from): index of the leftmost occurrence at or after from, 0 if none
NextOccurrence(s, old, from) ==
    First({i \in from..(Len(s) - Len(old) + 1) : SubSeq(s, i, i + Len(old) - 1) = old})

\* s.replace(old, new): every non-overlapping occurrence, left to right
RECURSIVE ReplaceFrom(_, _, _, _, _)
ReplaceAt(s, old, new, from, acc, i) ==
    IF i = 0 THEN acc \o SubSeq(s, from, Len(s))
    ELSE ReplaceFrom(s, old, new, i + Len(old), acc \o SubSeq(s, from, i - 1) \o new)
ReplaceFrom(s, old, new, from, acc) == ReplaceAt(s, old, new, from, acc, NextOccurrence(s, old, from))
replace(s, old, new) == ReplaceFrom(s, old, new, 1, <<>>)

\* f"[REDACTED:{rule.name}]"
Placeholder(name) == <<"[", "R", "E", "D", "A", "C", "T", "E", "D", ":">> \o name \o <<"]">>

\* Optional[str]
None == [some |-> FALSE, text |-> <<>>]
Some(t) == [some |-> TRUE, text |-> t]

\* the dict ScanResult.add_violation appends
Violation(rule, m) ==
    [rule_name |-> rule.name, severity |-> rule.severity, action |-> rule.action,
     description |-> rule.description,
     match |-> m.group, match_start |-> m.start, match_end |-> m.end]

\* an add_violation whose should_block follows the last violation added
ScanMatchLastDecides(rule, m, res) ==
    [violations   |-> Append(res.violations, Violation(rule, m)),
     should_block |-> (rule.action = "block"),
     redacted     |-> IF rule.action = "redact"
                      THEN replace(res.redacted, m.group, Placeholder(rule.name))
                      ELSE res.redacted]

\* the body of the inner for loop of scan_message, for match m of rule
ScanMatch(rule, m, res) ==
    [violations   |-> Append(res.violations, Violation(rule, m)),
     should_block |-> (res.should_block \/ rule.action = "block"),
     redacted     |-> IF rule.action = "redact"
                      THEN replace(res.redacted, m.group, Placeholder(rule.name))
                      ELSE res.redacted]

\* the inner for loop over the matches ms[k..] of rule
RECURSIVE ScanMatches(_, _, _, _)
ScanMatches(rule, ms, k, res) ==
    IF k > Len(ms) THEN res ELSE ScanMatches(rule, ms, k + 1, ScanMatch(rule, ms[k], res))

\* a scan that goes no further once a rule has blocked
RECURSIVE ScanRulesUntilBlock(_, _, _, _)
ScanRulesUntilBlock(rules, k, text, res) ==
    IF k > Len(rules) \/ res.should_block THEN res
    ELSE ScanRulesUntilBlock(rules, k + 1, text,
                             ScanMatches(rules[k], finditer(text, rules[k].pattern), 1, res))

\* the outer for loop over compiled_rules[k..]
RECURSIVE ScanRules(_, _, _, _)
ScanRules(rules, k, text, res) ==
    IF k > Len(rules) THEN res
    ELSE ScanRules(rules, k + 1, text,
                   ScanMatches(rules[k], finditer(text, rules[k].pattern), 1, res))

\* re.compile(pattern, re.IGNORECASE) on the patterns of the model: literal
\* text compiles; "(" opens a group that nothing closes, which raises re.error
Compiles(pattern) == \A k \in DOMAIN pattern : pattern[k] # "("

IsEnabled(rule) == rule.enabled
IsCompiled(rule) == rule.enabled /\ Compiles(rule.pattern)

\* a _compile_patterns that gives up at the first pattern that fails to compile
compiled_rules_until_error(conf) ==
    IF ~conf.scanning.enabled THEN <<>>
    ELSE SelectSeq(SubSeq(conf.scanning.rules, 1,
                          First({k \in DOMAIN conf.scanning.rules : IsEnabled(conf.scanning.rules[k])
                                     /\ ~Compiles(conf.scanning.rules[k].pattern)}
                                \cup {Len(conf.scanning.rules) + 1}) - 1),
                   IsCompiled)

\* SecurityScanner._compile_patterns: the enabled rules whose pattern
\* compiles, in the order of the configuration; none when scanning is off
compiled_rules(conf) ==
    IF conf.scanning.enabled THEN SelectSeq(conf.scanning.rules, IsCompiled) ELSE <<>>

\* a fresh ScanResult
NoViolations == [violations |-> <<>>, should_block |-> FALSE, modified_message |-> None]

\* a scan_message that sets modified_message whatever it replaced
ScanFinishAlways(text, res) ==
    [violations       |-> res.violations,
     should_block     |-> res.should_block,
     modified_message |-> Some(res.redacted)]

\* the end of scan_message: modified_message is set when something was replaced
ScanFinish(text, res) ==
    [violations       |-> res.violations,
     should_block     |-> res.should_block,
     modified_message |-> IF res.redacted # text THEN Some(res.redacted) ELSE None]

\* a scan_message that looks at the flag of the other direction
scan_message_crossed(conf, message, direction) ==
    IF ~conf.scanning.enabled THEN NoViolations
    ELSE IF direction = "client->server" /\ ~conf.scanning.scan_response THEN NoViolations
    ELSE IF direction = "server->client" /\ ~conf.scanning.scan_request THEN NoViolations
    ELSE ScanFinish(message.raw_message,
                    ScanRules(compiled_rules(conf), 1, message.raw_message,
                              [violations |-> <<>>, should_block |-> FALSE,
                               redacted |-> message.raw_message]))

\* SecurityScanner.scan_message
scan_message(conf, message, direction) ==
    IF ~conf.scanning.enabled THEN NoViolations
    ELSE IF direction = "client->server" /\ ~conf.scanning.scan_request THEN NoViolations
    ELSE IF direction = "server->client" /\ ~conf.scanning.scan_response THEN NoViolations
    ELSE ScanFinish(message.raw_message,
                    ScanRules(compiled_rules(conf), 1, message.raw_message,
                              [violations |-> <<>>, should_block |-> FALSE,
                               redacted |-> message.raw_message]))

\* scan_result.modified_message or message.raw_message
message_to_send(message, scan_result) ==
    IF scan_result.modified_message.some /\ scan_result.modified_message.text # <<>>
    THEN scan_result.modified_message.text
    ELSE message.raw_message

\* "Request blocked by security policy"
BlockedText ==
    <<"R", "e", "q", "u", "e", "s", "t", " ", "b", "l", "o", "c", "k", "e", "d", " ", "b", "y", " ",
      "s", "e", "c", "u", "r", "i", "t", "y", " ", "p", "o", "l", "i", "c", "y">>

\* create_error_response: the JsonRpcErrorResponse built (its serialisation
\* model_dump_json is not modelled); violations is error.data.violations,
\* the reason and contact texts of error.data are left out
BlockResponse(id, violations) ==
    [jsonrpc |-> W_2_0, id |-> id, code |-> -32000, message |-> BlockedText, violations |-> violations]
ViolationDetail(v) == [rule |-> v.rule_name, severity |-> v.severity, description |-> v.description]
\* violation details listed last violation first
ViolationDetailsReversed(vs) == [k \in 1..Len(vs) |-> ViolationDetail(vs[Len(vs) + 1 - k])]
ViolationDetails(vs) == [k \in 1..Len(vs) |-> ViolationDetail(vs[k])]
\* SecurityScanner.create_block_response
create_block_response(original_message, scan_result) ==
    BlockResponse(original_message.message_id, ViolationDetails(scan_result.violations))
\* the resp of a write that carries no block response
NoResponse == [jsonrpc |-> <<>>, id |-> JNull, code |-> 0, message |-> <<>>, violations |-> <<>>]

-----------------------------------------------------------------------------
(* logger.py: the entry GatewayLogger.audit appends (direction, kind, id,  *)
(* blocked, method and the violations; timestamp, server and the message   *)
(* content are left out).  n numbers the message within its direction.     *)

AuditEntry(d, n, m, s) ==
    [direction |-> d, n |-> n, message_type |-> m.message_type, message_id |-> m.message_id,
     blocked |-> s.should_block, method |-> m.method, violations |-> s.violations]

-----------------------------------------------------------------------------
(* gateway.py: what a pump does with one line, as the sequence of its      *)
(* effects on the shared streams.  An effect is one call: a write to       *)
(* sys.stdout, its flush, a write (with flush) to the child's stdin, or an *)
(* audit call.  kind tells what is written: a forwarded message, a block   *)
(* response, or a diagnostic printed with print(); n is the number of the  *)
(* message within its direction (0 for a parse diagnostic).                *)

C2S == "client->server"
S2C == "server->client"
Directions == {C2S, S2C}

Effect(op, kind, n, text, resp, entry) ==
    [op |-> op, kind |-> kind, n |-> n, text |-> text, resp |-> resp, entry |-> entry]

NoEntry == AuditEntry(C2S, 0, NoMessage, NoViolations)

\* sys.stdout.write(response + "\n") in two calls instead of one
StdoutWriteSplit(kind, n, text, resp) ==
    << Effect("stdout", kind, n, SubSeq(text, 1, Len(text) - 1), resp, NoEntry),
       Effect("stdout", "newline", n, <<NL>>, NoResponse, NoEntry) >>

\* sys.stdout.write(text): one call; for a block response text is the "\n"
\* that follows the serialised resp
StdoutWrite(kind, n, text, resp) == << Effect("stdout", kind, n, text, resp, NoEntry) >>

\* sys.stdout.flush()
StdoutFlush(n) == << Effect("flush", "flush", n, <<>>, NoResponse, NoEntry) >>

\* print(text): print writes the text and the line end in two calls, and does not flush
PrintStdout(n, text) ==
    << Effect("stdout", "diagnostic", n, text, NoResponse, NoEntry),
       Effect("stdout", "diagnostic", n, <<NL>>, NoResponse, NoEntry) >>

ParseErrorText == <<"E", "r", "r", "o", "r", " ", "p", "a", "r", "s", "i", "n", "g">>
EmailAlertText == <<"E", "m", "a", "i", "l", " ", "a", "l", "e", "r", "t">>
WebhookErrorText == <<"E", "r", "r", "o", "r", " ", "s", "e", "n", "d", "i", "n", "g">>

\* the print of MessageParser.feed for each substring whose parse raised
RECURSIVE RaisedPlan(_)
RaisedPlan(k) == IF k = 0 THEN <<>> ELSE PrintStdout(0, ParseErrorText) \o RaisedPlan(k - 1)

\* requests.post(webhook_url, json=alert_data, timeout=5)
PostPlan(n) == << Effect("post", "alert", n, <<>>, NoResponse, NoEntry) >>

\* a send_alert that posts again when the post has failed
AlertPlanRetrying(conf, webhook_fails, n, s) ==
    IF s.violations = <<>> \/ ~conf.alerting.enabled THEN <<>>
    ELSE (IF conf.alerting.webhook_url
          THEN PostPlan(n) \o (IF webhook_fails THEN PostPlan(n) \o PrintStdout(n, WebhookErrorText) ELSE <<>>)
          ELSE <<>>)
         \o (IF conf.alerting.email THEN PrintStdout(n, EmailAlertText) ELSE <<>>)

\* AlertManager.send_alert, called when the scan found violations: the
\* webhook post, reported with print when it fails, then the e-mail
\* placeholder, which prints
AlertPlan(conf, webhook_fails, n, s) ==
    IF s.violations = <<>> \/ ~conf.alerting.enabled THEN <<>>
    ELSE (IF conf.alerting.webhook_url
          THEN PostPlan(n) \o (IF webhook_fails THEN PrintStdout(n, WebhookErrorText) ELSE <<>>)
          ELSE <<>>)
         \o (IF conf.alerting.email THEN PrintStdout(n, EmailAlertText) ELSE <<>>)

\* self.logger.audit(...)
AuditPlan(d, n, m, s) == << Effect("audit", "audit", n, <<>>, NoResponse, AuditEntry(d, n, m, s)) >>

\* a pump that forwards a message whatever the scan decided
DeliverAnyway(d, n, m, s) ==
    IF d = C2S THEN << Effect("stdin", "forward", n, Append(message_to_send(m, s), NL), NoResponse, NoEntry) >>
    ELSE StdoutWrite("forward", n, Append(message_to_send(m, s), NL), NoResponse) \o StdoutFlush(n)

\* a pump that lets a redaction win over a block
DeliverRedactedFirst(d, n, m, s) ==
    IF s.should_block /\ ~s.modified_message.some THEN
        IF m.message_id # JNull
        THEN StdoutWrite("error", n, <<NL>>, create_block_response(m, s)) \o StdoutFlush(n)
        ELSE <<>>
    ELSE DeliverAnyway(d, n, m, s)

\* "Handle blocking" and "Forward to server / client" of both pumps
Deliver(d, n, m, s) ==
    IF s.should_block THEN
        IF m.message_id # JNull
        THEN StdoutWrite("error", n, <<NL>>, create_block_response(m, s)) \o StdoutFlush(n)
        ELSE <<>>
    ELSE IF d = C2S
        THEN << Effect("stdin", "forward", n, Append(message_to_send(m, s), NL), NoResponse, NoEntry) >>
        ELSE StdoutWrite("forward", n, Append(message_to_send(m, s), NL), NoResponse) \o StdoutFlush(n)

\* a loop body that audits after the block or forward action
MessagePlanAuditLast(conf, webhook_fails, d, n, m, s) ==
    AlertPlan(conf, webhook_fails, n, s) \o Deliver(d, n, m, s) \o AuditPlan(d, n, m, s)

\* the body of "for message in messages" for the n-th message m of direction
\* d, whose scan returned s
MessagePlan(conf, webhook_fails, d, n, m, s) ==
    AlertPlan(conf, webhook_fails, n, s) \o AuditPlan(d, n, m, s) \o Deliver(d, n, m, s)

\* the messages a feed returned, each with its scan result
RECURSIVE Scanned(_, _, _, _)
Scanned(conf, d, messages, i) ==
    IF i > Len(messages) THEN <<>>
    ELSE <<[msg |-> messages[i], scan |-> scan_message(conf, messages[i], d)]>>
         \o Scanned(conf, d, messages, i + 1)

\* a for loop that takes the messages of a line last to first
RECURSIVE MessagesPlanReversed(_, _, _, _, _, _)
MessagesPlanReversed(conf, webhook_fails, d, k, ds, i) ==
    IF i > Len(ds) THEN <<>>
    ELSE MessagesPlanReversed(conf, webhook_fails, d, k, ds, i + 1)
         \o MessagePlan(conf, webhook_fails, d, k + i, ds[i].msg, ds[i].scan)

\* the for loop over the scanned messages ds[i..]; k messages were decoded before
RECURSIVE MessagesPlan(_, _, _, _, _, _)
MessagesPlan(conf, webhook_fails, d, k, ds, i) ==
    IF i > Len(ds) THEN <<>>
    ELSE MessagePlan(conf, webhook_fails, d, k + i, ds[i].msg, ds[i].scan)
         \o MessagesPlan(conf, webhook_fails, d, k, ds, i + 1)

\* one iteration of a pump's while loop after readline: r is what feed
\* returned, ds its messages scanned
LinePlan(conf, webhook_fails, d, k, r, ds) ==
    RaisedPlan(Len(r.raised)) \o MessagesPlan(conf, webhook_fails, d, k, ds, 1)

\* the variables of the parser under test while another part is exercised
FeedIdle ==
    /\ input = <<>>
    /\ pos = 0
    /\ buffer = <<>>
    /\ emitted = <<>>
    /\ framed = <<>>
    /\ cut_in_string = FALSE
    /\ cut_in_escape = FALSE
    /\ fed_whole = FALSE

\* the variables of the scanner under test while another part is exercised
ScanIdle ==
    /\ scan_input = NoMessage
    /\ scan_direction = "client->server"
    /\ scan_output = NoViolations
    /\ scanned = FALSE
    /\ rescanned = FALSE
    /\ alerted = FALSE
    /\ alerts = <<>>

\* the gateway before its pumps are started
GatewayIdle ==
    /\ todo = [d \in Directions |-> <<>>]
    /\ eof = [d \in Directions |-> FALSE]
    /\ nread = [d \in Directions |-> 0]
    /\ parser_buffer = [d \in Directions |-> <<>>]
    /\ decoded = [d \in Directions |-> <<>>]
    /\ stdout = <<>>
    /\ flushed = 0
    /\ child_stdin = <<>>
    /\ audit_log = <<>>

\* the counters of MetricsCollector.metrics; the dictionaries are taken at
\* the keys the pumps of SpecMetrics use
CounterNames ==
    { "messages_processed", "messages_by_direction[client->server]",
      "messages_by_direction[server->client]", "messages_by_type[request]",
      "violations[b]", "blocked_messages", "total_latency_ms" }

\* MetricsCollector.__init__, before any pump has recorded anything
MetricsIdle ==
    /\ metrics = [c \in CounterNames |-> 0]
    /\ counting = [d \in Directions |-> <<>>]
    /\ loaded = [d \in Directions |-> -1]
    /\ recorded = [d \in Directions |-> [messages |-> 0, violations |-> 0]]

\* a gateway whose start() has not been called
LifeIdle ==
    /\ main_pc = "start"
    /\ child = "none"
    /\ child_stays = FALSE
    /\ client_open = TRUE
    /\ pump = [d \in Directions |-> "unstarted"]
    /\ to_gateway = 0
    /\ from_child = 0
    /\ written = [d \in Directions |-> 0]
    /\ handled = [d \in Directions |-> 0]
    /\ leaving = "none"
    /\ main_log = <<>>
    /\ signals = <<>>
    /\ exit_code = -1

\* an audit file that can be appended to and a webhook that answers
Healthy == [audit_writable |-> TRUE, webhook_fails |-> FALSE]

-----------------------------------------------------------------------------
(* The texts peers send: JSON-RPC 2.0 messages as the tests write them,   *)
(* without optional whitespace.  arg is the raw content of the string      *)
(* params.k (or result.k), escapes included.                               *)

Str(w) == <<Q>> \o w \o <<Q>>
Member(k, v) == Str(k) \o <<":">> \o v
Envelope == <<"{">> \o Member(W_jsonrpc, Str(W_2_0)) \o <<",">>
Payload(arg) == <<"{">> \o Member(<<"k">>, Str(arg)) \o <<"}">>

\* {"jsonrpc":"2.0","id":<id>,"method":"<method>","params":{"k":"<arg>"}}
RequestText(id, method, arg) ==
    Envelope \o Member(W_id, id) \o <<",">> \o Member(W_method, Str(method)) \o <<",">>
             \o Member(W_params, Payload(arg)) \o <<"}">>

\* {"jsonrpc":"2.0","method":"<method>","params":{"k":"<arg>"}}
NotificationText(method, arg) ==
    Envelope \o Member(W_method, Str(method)) \o <<",">> \o Member(W_params, Payload(arg)) \o <<"}">>

\* {"jsonrpc":"2.0","id":<id>,"result":{"k":"<arg>"}}
ResponseText(id, arg) ==
    Envelope \o Member(W_id, id) \o <<",">> \o Member(W_result, Payload(arg)) \o <<"}">>

\* {"jsonrpc":"2.0","method":1}: JsonRpcRequest(**data) raises on it
BadMethodText == Envelope \o Member(W_method, <<"1">>) \o <<"}">>

-----------------------------------------------------------------------------
(* SpecFeed: one MessageParser fed an arbitrary stream in arbitrary chunks *)

MaxPieces == 2      \* pieces a stream is made of
MaxChunk  == 3      \* a chunk is 1..MaxChunk characters, or all that is left

\* the complete messages a stream can hold (one with an escaped quote and a
\* closing brace inside a string literal)
ValidPieces ==
    { RequestText(<<"1">>, <<"m">>, <<"a">>),
      NotificationText(<<"n">>, <<BS, Q, "}">>) }

\* malformed input: a rejected object, invalid JSON inside braces, a stray
\* closing brace, an unbalanced opening brace, an unterminated string and a
\* stray character
MalformedPieces ==
    { BadMethodText,
      <<"{", "a", "}">>,
      <<"}">>,
      <<"{">>,
      <<"{", Q, "a", "}">>,
      <<"a">> }

\* the complete messages, each as a line
ValidLines == {Append(v, NL) : v \in ValidPieces}

\* the pieces a stream is made of
Pieces == ValidPieces \cup ValidLines \cup MalformedPieces \cup {<<NL>>}

RECURSIVE Streams(_)
Streams(n) == IF n = 0 THEN {<<>>} ELSE Streams(n - 1) \cup {s \o p : s \in Streams(n - 1), p \in Pieces}

FeedInit ==
    /\ input \in Streams(MaxPieces)
    /\ pos = 0
    /\ buffer = <<>>
    /\ emitted = <<>>
    /\ framed = <<>>
    /\ cut_in_string = FALSE
    /\ cut_in_escape = FALSE
    /\ fed_whole = FALSE
    /\ config = DefaultConfig
    /\ ScanIdle
    /\ env = Healthy
    /\ GatewayIdle
    /\ MetricsIdle
    /\ LifeIdle

\* the parser and the record of its returns after a feed that returned r;
\* f holds the framer's flags at the end of the text left buffered
FeedReturn(n, r, f) ==
    /\ pos' = pos + n
    /\ buffer' = r.buffer
    /\ emitted' = emitted \o r.messages
    /\ framed' = framed \o r.frames
    /\ cut_in_string' = (cut_in_string \/ (pos + n < Len(input) /\ f.in_string))
    /\ cut_in_escape' = (cut_in_escape \/ (pos + n < Len(input) /\ f.escape))
    /\ fed_whole' = (pos = 0 /\ n = Len(input))
    /\ UNCHANGED <<input, config, scanVars, gwVars, metricsVars, lifeVars>>

FeedDone(n, r) == FeedReturn(n, r, ScanObject(r.buffer))

\* messages = parser.feed(chunk), for the next n characters of the stream
Feed(n) == FeedDone(n, feed(buffer, SubSeq(input, pos + 1, pos + n)))

FeedNext ==
    \E n \in 1..(Len(input) - pos) :
        /\ n <= MaxChunk \/ n = Len(input) - pos
        /\ Feed(n)

SpecFeed == FeedInit /\ [][FeedNext]_vars

\* the result of a single feed of the first n characters on a fresh parser
FeedOnce(n) == feed(<<>>, SubSeq(input, 1, n))

\* the parser's returns so far and its buffer are those of the feed result once
AgreesWith(once) ==
    /\ emitted = once.messages
    /\ framed = once.frames
    /\ buffer = once.buffer

\* C1 (framing totality): whatever the cuts, the ParsedMessages returned by
\* the feeds so far, concatenated, are the ParsedMessages (raw_message, kind,
\* method, id) a fresh parser returns for one feed of the characters fed so
\* far; the substrings framed and the text left buffered agree as well.
C1_FramingTotality == AgreesWith(FeedOnce(pos))

\* a whole stream of at least two messages was fed with one cut inside a
\* string literal and one between a backslash and the character it escapes
C1_Witness ==
    /\ pos = Len(input)
    /\ cut_in_string
    /\ cut_in_escape
    /\ Len(emitted) >= 2

-----------------------------------------------------------------------------
(* SpecScan: scan_message applied once to a message, under a ruleset, the  *)
(* scanning switches and a direction                                       *)

MaxRules == 2       \* rules of a ruleset
MaxArg   == 3       \* characters of the string a message carries

\* the rules a ruleset is drawn from: two Redact rules whose matches can
\* overlap, a Redact rule whose pattern matches its own name, a Block rule,
\* a Log rule whose pattern is in the other letter case, an Alert rule and a
\* Block rule that is not enabled
RuleCatalogue ==
    { ScanRule(<<"k", "1">>, <<"x", "y">>, "redact", "high"),
      ScanRule(<<"k", "2">>, <<"y", "x">>, "redact", "medium"),
      ScanRule(<<"x">>,      <<"x">>,      "redact", "low"),
      ScanRule(<<"b">>,      <<"y", "y">>, "block",  "critical"),
      ScanRule(<<"l">>,      <<"Y">>,      "log",    "low"),
      ScanRule(<<"a">>,      <<"x">>,      "alert",  "medium"),
      [ScanRule(<<"d">>,     <<"y">>,      "block",  "critical") EXCEPT !.enabled = FALSE] }

Range(f) == {f[k] : k \in DOMAIN f}

\* the lists of at most n distinct rules
RECURSIVE RuleSets(_)
RuleSets(n) ==
    IF n = 0 THEN {<<>>}
    ELSE RuleSets(n - 1) \cup
         UNION {{Append(rs, r) : r \in RuleCatalogue \ Range(rs)} :
                    rs \in {q \in RuleSets(n - 1) : Len(q) = n - 1}}

\* the strings of at most n characters a message carries
ArgAlphabet == {"x", "y"}
RECURSIVE Args(_)
Args(n) == IF n = 0 THEN {<<>>} ELSE Args(n - 1) \cup {Append(a, c) : a \in Args(n - 1), c \in ArgAlphabet}

\* the messages scanned: a request and a notification carrying the string
ScanTexts == {RequestText(<<"1">>, <<"m">>, a) : a \in Args(MaxArg)}
             \cup {NotificationText(<<"m">>, a) : a \in Args(MaxArg)}

\* the settings of ScanningConfig.enabled, scan_request and scan_response
Switches ==
    { [enabled |-> TRUE,  scan_request |-> TRUE,  scan_response |-> TRUE],
      [enabled |-> FALSE, scan_request |-> TRUE,  scan_response |-> TRUE],
      [enabled |-> TRUE,  scan_request |-> FALSE, scan_response |-> TRUE],
      [enabled |-> TRUE,  scan_request |-> TRUE,  scan_response |-> FALSE] }

WithSwitches(conf, sw) ==
    [conf EXCEPT !.scanning.enabled = sw.enabled,
                 !.scanning.scan_request = sw.scan_request,
                 !.scanning.scan_response = sw.scan_response]

ScanInit ==
    /\ config \in {WithSwitches(GatewayConfig(rs), sw) : rs \in RuleSets(MaxRules), sw \in Switches}
    /\ scan_input \in {parse_message(t).msg : t \in ScanTexts}
    /\ scan_direction \in {"client->server", "server->client"}
    /\ scan_output = NoViolations
    /\ scanned = FALSE
    /\ rescanned = FALSE
    /\ alerted = FALSE
    /\ alerts = <<>>
    /\ FeedIdle
    /\ env = Healthy
    /\ GatewayIdle
    /\ MetricsIdle
    /\ LifeIdle

\* a scanner whose result is not fresh: it still holds what the scan before
\* recorded
ScanMessageKeeping ==
    /\ ~rescanned
    /\ scanned' = TRUE
    /\ rescanned' = scanned
    /\ scan_output' =
          [scan_message(config, scan_input, scan_direction) EXCEPT
              !.violations = scan_output.violations \o @]
    /\ UNCHANGED <<feedVars, config, scan_input, scan_direction, alerted, alerts, gwVars, metricsVars, lifeVars>>

\* scan_result = self.scanner.scan_message(message, direction); the pump's
\* caller may hand the same message to the scanner again
ScanMessage ==
    /\ ~rescanned
    /\ scanned' = TRUE
    /\ rescanned' = scanned
    /\ scan_output' = scan_message(config, scan_input, scan_direction)
    /\ UNCHANGED <<feedVars, config, scan_input, scan_direction, alerted, alerts, gwVars, metricsVars, lifeVars>>

ScanNext == ScanMessage

SpecScan == ScanInit /\ [][ScanNext]_vars

\* old occurs in s
Contains(s, old) == NextOccurrence(s, old, 1) # 0

\* the number of occurrences of old in s
Count(s, old) == Cardinality({i \in 1..(Len(s) - Len(old) + 1) : SubSeq(s, i, i + Len(old) - 1) = old})

\* the violations of result recorded for Redact rules
Redactions(result) == SelectSeq(result.violations, LAMBDA v : v.action = "redact")

\* out holds none of the substrings rs records and, for each rule named in
\* rs, as many placeholders of the rule as rs records matches of it
Redacted(out, rs) ==
    \A k \in 1..Len(rs) :
        /\ ~Contains(out, rs[k].match)
        /\ Count(out, Placeholder(rs[k].rule_name))
             = Cardinality({j \in 1..Len(rs) : rs[j].rule_name = rs[k].rule_name})

\* C6 (redaction soundness): when a Redact rule matched a message that is not
\* blocked, the bytes forwarded hold none of the substrings the Redact rules
\* matched and exactly one placeholder [REDACTED:<rule.name>] per match.
C6_RedactionSoundness ==
    (scanned /\ ~scan_output.should_block /\ Redactions(scan_output) # <<>>)
        => Redacted(message_to_send(scan_input, scan_output), Redactions(scan_output))

-----------------------------------------------------------------------------
(* Spec: the gateway running, its two pumps as two threads (gateway.py     *)
(* start).  A step is one readline with the parsing and scanning that      *)
(* follow it, or one effect of the iteration on a stream other threads     *)
(* share.  A write call on sys.stdout is one step: CPython's buffered      *)
(* writer takes its lock for the whole call.                               *)

MaxLines == 2

\* the rules the running gateway is configured with
GatewayRules ==
    << ScanRule(<<"k", "1">>, <<"x", "y">>, "redact", "high"),
       ScanRule(<<"b">>,      <<"y", "y">>, "block",  "critical") >>

Line(text) == Append(text, NL)

\* the lines the client can send: a request and a notification that match
\* the Block rule and the Redact rule, a line the parser raises on, and two
\* requests on one line with the ids 5 and "5", the second of which is
\* redacted
ClientLines ==
    { Line(RequestText(<<"4">>, <<"m">>, <<"x", "y", "y">>)),
      Line(NotificationText(<<"m">>, <<"x", "y", "y">>)),
      Line(BadMethodText),
      Line(RequestText(<<"5">>, <<"m">>, <<"x">>) \o RequestText(Str(<<"5">>), <<"m">>, <<"x", "y">>)) }

\* the lines the server can send: a response that matches both rules, a
\* request with the id "4" and a notification that are blocked, a line the
\* parser raises on, and two responses on one line, the second of which has
\* an id the Redact rule matches
ServerLines ==
    { Line(ResponseText(<<"2">>, <<"x", "y", "y">>)),
      Line(RequestText(Str(<<"4">>), <<"s">>, <<"y", "y">>)),
      Line(NotificationText(<<"s">>, <<"y", "y">>)),
      Line(BadMethodText),
      Line(ResponseText(<<"5">>, <<"x">>) \o <<" ">> \o ResponseText(Str(<<"x", "y">>), <<"x", "y">>)) }

Lines(d) == IF d = C2S THEN ClientLines ELSE ServerLines

\* the configurations and environments the gateway is run in
Profiles ==
    { [config |-> GatewayConfig(GatewayRules), env |-> Healthy],
      [config |-> [GatewayConfig(GatewayRules) EXCEPT !.scanning.enabled = FALSE], env |-> Healthy],
      [config |-> [GatewayConfig(GatewayRules) EXCEPT !.auditing.enabled = FALSE], env |-> Healthy],
      [config |-> [GatewayConfig(GatewayRules) EXCEPT !.alerting.enabled = TRUE, !.alerting.email = TRUE],
       env |-> Healthy],
      [config |-> [GatewayConfig(GatewayRules) EXCEPT !.alerting.enabled = TRUE, !.alerting.webhook_url = TRUE],
       env |-> [Healthy EXCEPT !.webhook_fails = TRUE]],
      [config |-> GatewayConfig(GatewayRules), env |-> [Healthy EXCEPT !.audit_writable = FALSE]] }

Init ==
    /\ \E p \in Profiles : config = p.config /\ env = p.env
    /\ GatewayIdle
    /\ MetricsIdle
    /\ LifeIdle
    /\ FeedIdle
    /\ ScanIdle

\* the pump of direction d is at its readline
AtReadLine(d) == todo[d] = <<>> /\ ~eof[d]

LinePlanned(d, r, ds, plan) ==
    /\ nread' = [nread EXCEPT ![d] = @ + 1]
    /\ parser_buffer' = [parser_buffer EXCEPT ![d] = r.buffer]
    /\ decoded' = [decoded EXCEPT ![d] = @ \o ds]
    /\ todo' = [todo EXCEPT ![d] = plan]
    /\ UNCHANGED <<feedVars, config, scanVars, metricsVars, lifeVars, env, eof, stdout, flushed, child_stdin, audit_log>>

LineScanned(d, r, ds) ==
    LinePlanned(d, r, ds, LinePlan(config, env.webhook_fails, d, Len(decoded[d]), r, ds))

LineFed(d, r) == LineScanned(d, r, Scanned(config, d, r.messages, 1))

\* line = readline(); messages = parser.feed(line), with the scan of each message
ReadLine(d) ==
    /\ AtReadLine(d)
    /\ nread[C2S] + nread[S2C] < MaxLines
    /\ \E line \in Lines(d) : LineFed(d, feed(parser_buffer[d], line))

\* an end of input that ends the loops of both pumps
EndOfInputBoth(d) ==
    /\ AtReadLine(d)
    /\ eof' = [e \in Directions |-> TRUE]
    /\ UNCHANGED <<feedVars, config, scanVars, metricsVars, lifeVars, env, todo, nread, parser_buffer, decoded,
                   stdout, flushed, child_stdin, audit_log>>

\* readline returned "": break
EndOfInput(d) ==
    /\ AtReadLine(d)
    /\ eof' = [eof EXCEPT ![d] = TRUE]
    /\ UNCHANGED <<feedVars, config, scanVars, metricsVars, lifeVars, env, todo, nread, parser_buffer, decoded,
                   stdout, flushed, child_stdin, audit_log>>

\* the next effect of pump d is a call of kind op
NextIs(d, op) == todo[d] # <<>> /\ Head(todo[d]).op = op

Done(d) == todo' = [todo EXCEPT ![d] = Tail(@)]

\* what a write call leaves in the buffer of sys.stdout
Written(d, e) == [dir |-> d, kind |-> e.kind, n |-> e.n, text |-> e.text, resp |-> e.resp]

\* sys.stdout.write(...), also the two writes of a print
WriteStdout(d) ==
    /\ NextIs(d, "stdout")
    /\ stdout' = Append(stdout, Written(d, Head(todo[d])))
    /\ Done(d)
    /\ UNCHANGED <<feedVars, config, scanVars, metricsVars, lifeVars, env, eof, nread, parser_buffer, decoded,
                   flushed, child_stdin, audit_log>>

\* sys.stdout.flush()
FlushStdout(d) ==
    /\ NextIs(d, "flush")
    /\ flushed' = Len(stdout)
    /\ Done(d)
    /\ UNCHANGED <<feedVars, config, scanVars, metricsVars, lifeVars, env, eof, nread, parser_buffer, decoded,
                   stdout, child_stdin, audit_log>>

\* self.server_process.stdin.write(...); self.server_process.stdin.flush()
WriteChildStdin ==
    /\ NextIs(C2S, "stdin")
    /\ child_stdin' = Append(child_stdin, Written(C2S, Head(todo[C2S])))
    /\ Done(C2S)
    /\ UNCHANGED <<feedVars, config, scanVars, metricsVars, lifeVars, env, eof, nread, parser_buffer, decoded,
                   stdout, flushed, audit_log>>

\* AlertManager._send_webhook: the post, made once; its failure is caught
PostWebhook(d) ==
    /\ NextIs(d, "post")
    /\ alerts' = Append(alerts, [transport |-> "webhook", sent |-> ~env.webhook_fails,
                                 dir |-> d, n |-> Head(todo[d]).n])
    /\ Done(d)
    /\ UNCHANGED <<feedVars, config, scan_input, scan_direction, scan_output, scanned, rescanned, alerted,
                   metricsVars, lifeVars, env, eof, nread, parser_buffer, decoded,
                   stdout, flushed, child_stdin, audit_log>>

\* GatewayLogger.audit: nothing when auditing is disabled; a failed append
\* is reported through the logger and the pump goes on
Audit(d) ==
    /\ NextIs(d, "audit")
    /\ audit_log' = IF config.auditing.enabled /\ env.audit_writable
                    THEN Append(audit_log, Head(todo[d]).entry)
                    ELSE audit_log
    /\ Done(d)
    /\ UNCHANGED <<feedVars, config, scanVars, metricsVars, lifeVars, env, eof, nread, parser_buffer, decoded,
                   stdout, flushed, child_stdin>>

Next ==
    \/ \E d \in Directions : ReadLine(d)
    \/ \E d \in Directions : EndOfInput(d)
    \/ \E d \in Directions : WriteStdout(d)
    \/ \E d \in Directions : FlushStdout(d)
    \/ WriteChildStdin
    \/ \E d \in Directions : PostWebhook(d)
    \/ \E d \in Directions : Audit(d)

Spec == Init /\ [][Next]_vars

-----------------------------------------------------------------------------
(* What the peers and the audit file have seen of the n-th message of a    *)
(* direction.                                                              *)

\* the positions of sink holding a write of kind kind for message n of direction d
Outputs(sink, d, n, kind) ==
    {i \in DOMAIN sink : sink[i].dir = d /\ sink[i].n = n /\ sink[i].kind = kind}

\* the pump of direction d is through with its n-th message
Settled(d, n) == n \in DOMAIN decoded[d] /\ \A i \in DOMAIN todo[d] : todo[d][i].n # n

\* message n of direction d was blocked and has an id
BlockedWithId(d, n) == decoded[d][n].scan.should_block /\ decoded[d][n].msg.message_id # JNull

\* the block response to message n of direction d as the write call leaves it
BlockWritten(d, n) ==
    [dir |-> d, kind |-> "error", n |-> n, text |-> <<NL>>,
     resp |-> create_block_response(decoded[d][n].msg, decoded[d][n].scan)]

\* exactly one block response to message n of direction d has been written
\* to sys.stdout and flushed
OneBlockResponse(d, n) ==
    /\ Cardinality(Outputs(stdout, d, n, "error")) = 1
    /\ \E i \in 1..flushed : stdout[i] = BlockWritten(d, n)

\* C2: a blocked request with an id that the client->server pump decoded
\* is never written to the child's stdin, raw or redacted; at most one
\* block response to it is written to the gateway's stdout, and once the
\* pump is through with the message exactly one has been written and flushed
C2_ClientRequestBlocked ==
    \A n \in DOMAIN decoded[C2S] :
        (decoded[C2S][n].msg.message_type = "request" /\ BlockedWithId(C2S, n)) =>
            /\ \A i \in DOMAIN child_stdin : child_stdin[i].n # n
            /\ Cardinality(Outputs(stdout, C2S, n, "error")) <= 1
            /\ Settled(C2S, n) => OneBlockResponse(C2S, n)

\* the client's request 4 was blocked and answered while the child was sent
\* the two requests of another line
C2_Witness ==
    /\ Len(decoded[C2S]) = 3
    /\ \E n \in DOMAIN decoded[C2S] :
          /\ decoded[C2S][n].msg.message_type = "request"
          /\ BlockedWithId(C2S, n)
          /\ Settled(C2S, n)
    /\ Len(child_stdin) = 2

\* C3: for a blocked request with an id that the child sent, neither the
\* message nor a response to it is written to the gateway's stdout, and
\* once the server->client pump is through with it exactly one block
\* response has been written to the child's stdin
C3_ServerRequestBlocked ==
    \A n \in DOMAIN decoded[S2C] :
        (decoded[S2C][n].msg.message_type = "request" /\ BlockedWithId(S2C, n)) =>
            /\ Outputs(stdout, S2C, n, "forward") \cup Outputs(stdout, S2C, n, "error") = {}
            /\ Settled(S2C, n) => Cardinality(Outputs(child_stdin, S2C, n, "error")) = 1

\* the audit records of message n of direction d
AuditRecords(d, n) == {i \in DOMAIN audit_log : audit_log[i].direction = d /\ audit_log[i].n = n}

\* audit calls append: auditing is enabled and the audit file can be written
AuditInForce == config.auditing.enabled /\ env.audit_writable

\* C4: a blocked notification, in either direction, puts nothing on the
\* child's stdin and nothing on the gateway's stdout; it never has more
\* than one audit record, and (auditing being in force) once its pump is
\* through with it it has exactly one, with blocked true
C4_BlockedNotification ==
    \A d \in Directions : \A n \in DOMAIN decoded[d] :
        (decoded[d][n].msg.message_type = "notification" /\ decoded[d][n].scan.should_block) =>
            /\ \A i \in DOMAIN child_stdin : ~(child_stdin[i].dir = d /\ child_stdin[i].n = n)
            /\ \A i \in DOMAIN stdout : ~(stdout[i].dir = d /\ stdout[i].n = n)
            /\ Cardinality(AuditRecords(d, n)) <= 1
            /\ (AuditInForce /\ Settled(d, n)) => \E i \in AuditRecords(d, n) : audit_log[i].blocked

\* the scan of message n of direction d recorded a violation of a rule with that action
Triggered(d, n, action) ==
    \E k \in DOMAIN decoded[d][n].scan.violations : decoded[d][n].scan.violations[k].action = action

\* message n of direction d matched a Block rule and a Redact rule
BlockAndRedact(d, n) == Triggered(d, n, "block") /\ Triggered(d, n, "redact")

\* nothing of message n of direction d, raw or redacted, was written to the
\* child's stdin or to the gateway's stdout
NotForwarded(d, n) == Outputs(child_stdin, d, n, "forward") \cup Outputs(stdout, d, n, "forward") = {}

\* C5 as stated: a message that matched a Block rule and a Redact rule is
\* never forwarded, raw or redacted, and once its pump is through with it
\* the block response has been emitted
C5_BlockResponseAlways ==
    \A d \in Directions : \A n \in DOMAIN decoded[d] :
        BlockAndRedact(d, n) =>
            /\ NotForwarded(d, n)
            /\ Settled(d, n) => OneBlockResponse(d, n)

\* C5 amended: a message that matched a Block rule and a Redact rule is
\* never forwarded, raw or redacted; once its pump is through with it,
\* exactly one block response has been emitted if it has an id, and none
\* if it has no id (a notification)
C5_BlockPrecedence ==
    \A d \in Directions : \A n \in DOMAIN decoded[d] :
        BlockAndRedact(d, n) =>
            /\ NotForwarded(d, n)
            /\ Settled(d, n) =>
                  IF decoded[d][n].msg.message_id # JNull
                  THEN OneBlockResponse(d, n)
                  ELSE Outputs(stdout, d, n, "error") \cup Outputs(child_stdin, d, n, "error") = {}

\* the child's response 2 and the client's notification matched both rules,
\* have a redacted form, and both pumps are through with them
C5_Witness ==
    /\ \E n \in DOMAIN decoded[S2C] :
          /\ BlockAndRedact(S2C, n) /\ Settled(S2C, n)
          /\ decoded[S2C][n].scan.modified_message.some
          /\ decoded[S2C][n].msg.message_id # JNull
    /\ \E n \in DOMAIN decoded[C2S] :
          /\ BlockAndRedact(C2S, n) /\ Settled(C2S, n)
          /\ decoded[C2S][n].scan.modified_message.some
          /\ decoded[C2S][n].msg.message_id = JNull

\* the texts of the write calls a sink received, in order
Texts(sink) == [i \in DOMAIN sink |-> sink[i].text]

\* the messages the pump of direction d decoded, raw, each with its line end
RawLines(d) == [n \in DOMAIN decoded[d] |-> Line(decoded[d][n].msg.raw_message)]

IsPrefix(a, b) == Len(a) <= Len(b) /\ a = SubSeq(b, 1, Len(a))

\* what sink received is what the pump of direction d decoded so far, raw
\* and in order, and all of it when the pump is at its readline or has ended
RelaysRaw(sink, d) ==
    /\ IsPrefix(Texts(sink), RawLines(d))
    /\ todo[d] = <<>> => Len(sink) = Len(decoded[d])

\* C7: with scanning disabled, the child's stdin receives exactly the
\* messages decoded from the client and the gateway's stdout exactly the
\* messages decoded from the child: each once, raw, in order, and nothing else
C7_ForwardingFidelity ==
    ~config.scanning.enabled => RelaysRaw(child_stdin, C2S) /\ RelaysRaw(stdout, S2C)

\* the writes to sink that carry a message of direction d or a response to one
MessageWrites(sink, d) ==
    {i \in DOMAIN sink : sink[i].dir = d /\ sink[i].kind \in {"forward", "error"}}

\* message n of direction d, or a response to it, has been written to a peer
HasWrite(d, n) ==
    \/ \E i \in MessageWrites(stdout, d) : stdout[i].n = n
    \/ \E i \in MessageWrites(child_stdin, d) : child_stdin[i].n = n

\* message n of direction d has one audit record at most, has it before
\* anything is written for it, and has exactly one, saying what the pump
\* saw, once the pump is through with it
AuditedOnce(d, n) ==
    /\ Cardinality(AuditRecords(d, n)) <= 1
    /\ \A i \in AuditRecords(d, n) :
          audit_log[i] = AuditEntry(d, n, decoded[d][n].msg, decoded[d][n].scan)
    /\ HasWrite(d, n) => AuditRecords(d, n) # {}
    /\ Settled(d, n) => AuditRecords(d, n) # {}

\* the audit records of direction d and the writes each peer received for
\* direction d are in the order in which the pump decoded the messages
SameOrder(d) ==
    /\ \A i, j \in DOMAIN audit_log :
          (i < j /\ audit_log[i].direction = d /\ audit_log[j].direction = d)
              => audit_log[i].n < audit_log[j].n
    /\ \A i, j \in MessageWrites(stdout, d) : i < j => stdout[i].n < stdout[j].n
    /\ \A i, j \in MessageWrites(child_stdin, d) : i < j => child_stdin[i].n < child_stdin[j].n

AuditComplete == \A d \in Directions : SameOrder(d) /\ \A n \in DOMAIN decoded[d] : AuditedOnce(d, n)

Sink(d) == IF d = C2S THEN child_stdin ELSE stdout

\* the forwards of direction d in its sink
Forwards(d) == {i \in DOMAIN Sink(d) : Sink(d)[i].dir = d /\ Sink(d)[i].kind = "forward"}

\* the forward at position i of the sink of direction d is the raw or
\* redacted text of a message the pump decoded and did not block, and every
\* message decoded before it that was not blocked was forwarded before it
InTurn(d, sink, i) ==
    /\ sink[i].n \in DOMAIN decoded[d]
    /\ ~decoded[d][sink[i].n].scan.should_block
    /\ sink[i].text = Line(message_to_send(decoded[d][sink[i].n].msg, decoded[d][sink[i].n].scan))
    /\ \A m \in 1..(sink[i].n - 1) :
          decoded[d][m].scan.should_block \/ \E j \in Forwards(d) : j < i /\ sink[j].n = m

\* C9: within a direction the forwarding sink receives the messages in the
\* order in which the pump decoded them, none twice, none ahead of an
\* earlier one, whatever the other pump does in between
C9_PerDirectionFifo ==
    \A d \in Directions :
        /\ \A i, j \in Forwards(d) : i < j => Sink(d)[i].n < Sink(d)[j].n
        /\ \A i \in Forwards(d) : InTurn(d, Sink(d), i)

\* each pump forwarded the two messages of a line, and the pumps took turns:
\* the audit records alternate between the directions
C9_Witness ==
    /\ \A d \in Directions : Cardinality(Forwards(d)) = 2
    /\ Len(audit_log) = 4
    /\ \A i \in 1..3 : audit_log[i].direction # audit_log[i + 1].direction

\* the write at position i of stdout carries a message or a block response
IsMessageWrite(i) == stdout[i].kind \in {"forward", "error"}

\* the write e is the line end of the message written at position i of stdout
EndsLine(e, i) == e.kind = "newline" /\ e.dir = stdout[i].dir /\ e.n = stdout[i].n

\* the message written at position i of stdout has its line end right
\* behind it: in the same write, in the next write, or (nothing having been
\* written since) as the write its pump makes next
Contiguous(i) ==
    \/ stdout[i].text # <<>> /\ stdout[i].text[Len(stdout[i].text)] = NL
    \/ i < Len(stdout) /\ EndsLine(stdout[i + 1], i)
    \/ i = Len(stdout) /\ NextIs(stdout[i].dir, "stdout")
                       /\ EndsLine(Written(stdout[i].dir, Head(todo[stdout[i].dir])), i)

-----------------------------------------------------------------------------
(* SpecMetrics: the MetricsCollector the two pump threads share            *)
(* (logger.py).  Every update is a read of the counter followed by a write *)
(* of the value read plus one, "m[k] += 1" or "m[k] = m.get(k, 0) + 1";    *)
(* nothing in the code orders the updates of the two threads, so the read  *)
(* and the write are separate steps.  Each line taken holds one request,   *)
(* which the Block rule b matches or not, and costs one unit of latency.   *)

MaxRecorded == 2

\* messages_by_direction[direction]
ByDirection(d) ==
    IF d = C2S THEN "messages_by_direction[client->server]" ELSE "messages_by_direction[server->client]"

\* MetricsCollector.record_message: the counters it updates, in order
record_message(d) == <<"messages_processed", ByDirection(d), "messages_by_type[request]">>

\* MetricsCollector.record_violation(rule_name, blocked) for a violation of
\* the Block rule b
record_violation == <<"violations[b]", "blocked_messages">>

\* MetricsCollector.record_latency
record_latency == <<"total_latency_ms">>

\* the metrics calls of one iteration of a pump whose message has
\* violation (TRUE) or not
MetricsCalls(d, violation) ==
    record_message(d) \o (IF violation THEN record_violation ELSE <<>>) \o record_latency

MetricsInit ==
    /\ MetricsIdle
    /\ LifeIdle
    /\ config = DefaultConfig
    /\ env = Healthy
    /\ FeedIdle
    /\ ScanIdle
    /\ GatewayIdle

\* the pump of direction d takes a line: the calls of its iteration lie ahead
RecordLine(d) ==
    /\ counting[d] = <<>>
    /\ recorded[d].messages < MaxRecorded
    /\ \E violation \in BOOLEAN :
          /\ counting' = [counting EXCEPT ![d] = MetricsCalls(d, violation)]
          /\ recorded' = [recorded EXCEPT ![d] = [messages |-> @.messages + 1,
                                                   violations |-> @.violations + (IF violation THEN 1 ELSE 0)]]
    /\ UNCHANGED <<feedVars, config, scanVars, gwVars, lifeVars, metrics, loaded>>

\* the read of self.metrics[...] in an update
LoadCounter(d) ==
    /\ counting[d] # <<>>
    /\ loaded[d] = -1
    /\ loaded' = [loaded EXCEPT ![d] = metrics[Head(counting[d])]]
    /\ UNCHANGED <<feedVars, config, scanVars, gwVars, lifeVars, metrics, counting, recorded>>

\* the store of the value read plus one
StoreCounter(d) ==
    /\ counting[d] # <<>>
    /\ loaded[d] # -1
    /\ metrics' = [metrics EXCEPT ![Head(counting[d])] = loaded[d] + 1]
    /\ counting' = [counting EXCEPT ![d] = Tail(@)]
    /\ loaded' = [loaded EXCEPT ![d] = -1]
    /\ UNCHANGED <<feedVars, config, scanVars, gwVars, lifeVars, recorded>>

MetricsNext ==
    \/ \E d \in Directions : RecordLine(d)
    \/ \E d \in Directions : LoadCounter(d)
    \/ \E d \in Directions : StoreCounter(d)

SpecMetrics == MetricsInit /\ [][MetricsNext]_vars

\* the calls both pumps made, summed
Recorded(field) == recorded[C2S][field] + recorded[S2C][field]

\* C11: whenever no pump is inside a metrics call (so at shutdown), no
\* increment has been lost: messages_processed is the number of messages
\* the two pumps recorded and the sum of the two messages_by_direction
\* counters, and the counters of record_violation and record_latency count
\* every call made
C11_NoLostIncrement ==
    (\A d \in Directions : counting[d] = <<>>) =>
        /\ metrics["messages_processed"] = Recorded("messages")
        /\ metrics["messages_processed"] = metrics[ByDirection(C2S)] + metrics[ByDirection(S2C)]
        /\ metrics["messages_by_type[request]"] = Recorded("messages")
        /\ metrics["violations[b]"] = Recorded("violations")
        /\ metrics["blocked_messages"] = Recorded("violations")
        /\ metrics["total_latency_ms"] = Recorded("messages")

-----------------------------------------------------------------------------
(* SpecLife: the life of one gateway process (gateway.py start, the loops  *)
(* of the two pumps, _cleanup).  Lines are counted, not read: what a pump  *)
(* does with a line is the matter of Spec.  The client writes lines and    *)
(* closes the gateway's stdin when it likes; the child writes lines, and   *)
(* exits when it likes unless it is one that stays for as long as its      *)
(* stdin is open.                                                          *)

MaxWritten == 2

\* the thread of start() has neither returned nor raised: the process lives
Alive == main_pc \notin {"returned", "raised", "interrupted"}

LifeInit ==
    /\ main_pc = "start"
    /\ child = "none"
    /\ child_stays \in BOOLEAN
    /\ client_open = TRUE
    /\ pump = [d \in Directions |-> "unstarted"]
    /\ to_gateway = 0
    /\ from_child = 0
    /\ written = [d \in Directions |-> 0]
    /\ handled = [d \in Directions |-> 0]
    /\ leaving = "none"
    /\ main_log = <<>>
    /\ signals = <<>>
    /\ exit_code = -1
    /\ config = DefaultConfig
    /\ env = Healthy
    /\ FeedIdle
    /\ ScanIdle
    /\ GatewayIdle
    /\ MetricsIdle

\* subprocess.Popen succeeds and the threads are started; the main task
\* goes on to server_process.wait()
Spawn ==
    /\ main_pc = "start"
    /\ child' = "running"
    /\ pump' = [d \in Directions |-> "running"]
    /\ main_pc' = "wait"
    /\ UNCHANGED <<feedVars, config, scanVars, gwVars, metricsVars, endVars,
                   child_stays, client_open, to_gateway, from_child, written, handled>>

\* subprocess.Popen raises: the except clause logs the error and raises it
\* again, and the finally clause runs _cleanup
SpawnFails ==
    /\ main_pc = "start"
    /\ main_pc' = "cleanup"
    /\ leaving' = "raise"
    /\ main_log' = Append(main_log, "error")
    /\ UNCHANGED <<feedVars, config, scanVars, gwVars, metricsVars, signals, exit_code,
                   child, child_stays, client_open, pump, to_gateway, from_child, written, handled>>

\* subprocess.Popen succeeds and the start() of a thread raises (the client
\* pump's, or the server pump's after the client pump was started): the
\* except clause logs the error and raises it again
ThreadFails ==
    /\ main_pc = "start"
    /\ child' = "running"
    /\ \E started \in {{}, {C2S}} :
           pump' = [d \in Directions |-> IF d \in started THEN "running" ELSE "unstarted"]
    /\ main_pc' = "cleanup"
    /\ leaving' = "raise"
    /\ main_log' = Append(main_log, "error")
    /\ UNCHANGED <<feedVars, config, scanVars, gwVars, metricsVars, signals, exit_code,
                   child_stays, client_open, to_gateway, from_child, written, handled>>

\* the client writes a line to the gateway's stdin
ClientWrites ==
    /\ client_open
    /\ written[C2S] < MaxWritten
    /\ written' = [written EXCEPT ![C2S] = @ + 1]
    /\ to_gateway' = to_gateway + 1
    /\ UNCHANGED <<feedVars, config, scanVars, gwVars, metricsVars, endVars,
                   main_pc, child, child_stays, client_open, pump, from_child, handled>>

\* the client closes the gateway's stdin
ClientCloses ==
    /\ client_open
    /\ client_open' = FALSE
    /\ UNCHANGED <<feedVars, config, scanVars, gwVars, metricsVars, endVars,
                   main_pc, child, child_stays, pump, to_gateway, from_child, written, handled>>

\* the child writes a line to its stdout
ChildWrites ==
    /\ child = "running"
    /\ written[S2C] < MaxWritten
    /\ written' = [written EXCEPT ![S2C] = @ + 1]
    /\ from_child' = from_child + 1
    /\ UNCHANGED <<feedVars, config, scanVars, gwVars, metricsVars, endVars,
                   main_pc, child, child_stays, client_open, pump, to_gateway, handled>>

\* the child exits of its own accord; the gateway never closes the child's
\* stdin, so a child that stays does not
ChildExits ==
    /\ child = "running"
    /\ ~child_stays
    /\ child' = "exited"
    /\ UNCHANGED <<feedVars, config, scanVars, gwVars, metricsVars, endVars,
                   main_pc, child_stays, client_open, pump, to_gateway, from_child, written, handled>>

\* the pump of direction d leaves its loop in state how ("ended" by break,
\* "failed" through its except clause, which logs the error)
\* a pump whose exception is not kept to its own thread
PumpLeavesTogether(d, how) ==
    pump' = IF how = "failed" THEN [e \in Directions |-> how] ELSE [pump EXCEPT ![d] = how]

PumpLeaves(d, how) == pump' = [pump EXCEPT ![d] = how]

\* one iteration of the client->server pump: a line read from sys.stdin and
\* processed; the write to the child's stdin can raise once the child has exited
ClientPumpReads ==
    /\ Alive /\ pump[C2S] = "running"
    /\ to_gateway > 0
    /\ to_gateway' = to_gateway - 1
    /\ \/ handled' = [handled EXCEPT ![C2S] = @ + 1] /\ UNCHANGED pump
       \/ child = "exited" /\ PumpLeaves(C2S, "failed") /\ UNCHANGED handled
    /\ UNCHANGED <<feedVars, config, scanVars, gwVars, metricsVars, endVars,
                   main_pc, child, child_stays, client_open, from_child, written>>

\* sys.stdin.readline() returns "": break
ClientPumpEof ==
    /\ Alive /\ pump[C2S] = "running"
    /\ to_gateway = 0 /\ ~client_open
    /\ PumpLeaves(C2S, "ended")
    /\ UNCHANGED <<feedVars, config, scanVars, gwVars, metricsVars, endVars,
                   main_pc, child, child_stays, client_open, to_gateway, from_child, written, handled>>

\* one iteration of the server->client pump: a line read from the child's
\* stdout, decoded and processed; line.decode("utf-8") can raise
ServerPumpReads ==
    /\ Alive /\ pump[S2C] = "running"
    /\ from_child > 0
    /\ from_child' = from_child - 1
    /\ \/ handled' = [handled EXCEPT ![S2C] = @ + 1] /\ UNCHANGED pump
       \/ PumpLeaves(S2C, "failed") /\ UNCHANGED handled
    /\ UNCHANGED <<feedVars, config, scanVars, gwVars, metricsVars, endVars,
                   main_pc, child, child_stays, client_open, to_gateway, written>>

\* server_process.stdout.readline() returns b"": break
ServerPumpEof ==
    /\ Alive /\ pump[S2C] = "running"
    /\ from_child = 0 /\ child = "exited"
    /\ PumpLeaves(S2C, "ended")
    /\ UNCHANGED <<feedVars, config, scanVars, gwVars, metricsVars, endVars,
                   main_pc, child, child_stays, client_open, to_gateway, from_child, written, handled>>

\* the main task goes from at to next
MainGoes(at, next) ==
    /\ main_pc = at
    /\ main_pc' = next
    /\ UNCHANGED <<feedVars, config, scanVars, gwVars, metricsVars,
                   child_stays, client_open, pump, to_gateway, from_child, written, handled>>

\* self.server_process.wait() returns: the child has exited
WaitReturns == child = "exited" /\ MainGoes("wait", "join_client") /\ UNCHANGED <<child, endVars>>

\* client_to_server.join(timeout=1) returns, the thread finished or not
JoinClient == MainGoes("join_client", "join_server") /\ UNCHANGED <<child, endVars>>

\* server_to_client.join(timeout=1) returns, the thread finished or not; the
\* try block is left and the finally clause runs _cleanup
JoinServer ==
    /\ MainGoes("join_server", "cleanup")
    /\ leaving' = "return"
    /\ UNCHANGED <<child, main_log, signals, exit_code>>

\* a keyboard interrupt that ends start() without running the finally clause
InterruptNoFinally ==
    /\ \E at \in {"wait", "join_client", "join_server"} : MainGoes(at, "leave")
    /\ leaving' = "interrupt"
    /\ UNCHANGED <<child, main_log, signals, exit_code>>

\* KeyboardInterrupt in the main task while it waits or joins: not an
\* Exception, so only the finally clause runs
Interrupt ==
    /\ \E at \in {"wait", "join_client", "join_server"} : MainGoes(at, "cleanup")
    /\ leaving' = "interrupt"
    /\ UNCHANGED <<child, main_log, signals, exit_code>>

\* _cleanup: "Gateway shutting down" is logged; a server process that
\* exists and has not exited (poll() is None) is sent terminate() and waited
\* for; otherwise _cleanup returns
Cleanup ==
    /\ main_pc = "cleanup"
    /\ main_log' = Append(main_log, "shutdown")
    /\ IF child = "running"
       THEN signals' = Append(signals, "terminate") /\ MainGoes("cleanup", "grace")
       ELSE UNCHANGED signals /\ MainGoes("cleanup", "leave")
    /\ UNCHANGED <<child, leaving, exit_code>>

\* a child that was sent a signal exits (it may ignore terminate, not kill)
ChildDies ==
    /\ child = "running"
    /\ signals # <<>>
    /\ child' = "exited"
    /\ UNCHANGED <<feedVars, config, scanVars, gwVars, metricsVars, endVars,
                   main_pc, child_stays, client_open, pump, to_gateway, from_child, written, handled>>

\* self.server_process.wait(timeout=5) returns: the child has exited
GraceReturns ==
    /\ child = "exited"
    /\ MainGoes("grace", "leave")
    /\ UNCHANGED <<child, endVars>>

\* self.server_process.wait(timeout=5) raises TimeoutExpired: kill()
GraceExpires ==
    /\ child = "running"
    /\ MainGoes("grace", "leave")
    /\ signals' = Append(signals, "kill")
    /\ UNCHANGED <<child, leaving, main_log, exit_code>>

\* the finally clause is done: start() returns, raises the logged exception
\* again or lets the KeyboardInterrupt through
StartLeaves ==
    /\ leaving # "none"
    /\ MainGoes("leave", CASE leaving = "return" -> "returned"
                           [] leaving = "raise" -> "raised"
                           [] leaving = "interrupt" -> "interrupted")
    /\ UNCHANGED <<child, endVars>>

\* a run_gateway whose except Exception clause also takes the interrupt
RunGatewayEndsAsError ==
    /\ exit_code = -1
    /\ main_pc \in {"returned", "raised", "interrupted"}
    /\ exit_code' = IF main_pc = "returned" THEN 0 ELSE 1
    /\ UNCHANGED <<feedVars, config, scanVars, gwVars, metricsVars, leaving, main_log, signals,
                   main_pc, child, child_stays, client_open, pump, to_gateway, from_child, written, handled>>

\* run_gateway after gateway.start(): it returns (the command ends, exit
\* status 0), sys.exit(0) on KeyboardInterrupt, sys.exit(1) on an Exception
RunGatewayEnds ==
    /\ exit_code = -1
    /\ main_pc \in {"returned", "raised", "interrupted"}
    /\ exit_code' = IF main_pc = "raised" THEN 1 ELSE 0
    /\ UNCHANGED <<feedVars, config, scanVars, gwVars, metricsVars, leaving, main_log, signals,
                   main_pc, child, child_stays, client_open, pump, to_gateway, from_child, written, handled>>

LifeNext ==
    \/ Spawn
    \/ SpawnFails
    \/ ThreadFails
    \/ ClientWrites
    \/ ClientCloses
    \/ ChildWrites
    \/ ChildExits
    \/ ClientPumpReads
    \/ ClientPumpEof
    \/ ServerPumpReads
    \/ ServerPumpEof
    \/ WaitReturns
    \/ JoinClient
    \/ JoinServer
    \/ Interrupt
    \/ Cleanup
    \/ ChildDies
    \/ GraceReturns
    \/ GraceExpires
    \/ StartLeaves
    \/ RunGatewayEnds

SpecLife == LifeInit /\ [][LifeNext]_vars

\* every thread of the gateway that can take a step eventually takes one, and
\* a child that exits of its own accord eventually does
LifeFairness ==
    /\ WF_vars(Spawn \/ SpawnFails \/ ThreadFails)
    /\ WF_vars(ChildExits)
    /\ WF_vars(ClientPumpReads) /\ WF_vars(ClientPumpEof)
    /\ WF_vars(ServerPumpReads) /\ WF_vars(ServerPumpEof)
    /\ WF_vars(WaitReturns) /\ WF_vars(JoinClient) /\ WF_vars(JoinServer) /\ WF_vars(Cleanup)
    /\ WF_vars(GraceReturns \/ GraceExpires) /\ WF_vars(StartLeaves) /\ WF_vars(RunGatewayEnds)

SpecLifeFair == SpecLife /\ LifeFairness

\* C12: once the gateway is running and the client has closed the
\* gateway's stdin, start() eventually returns (or is left by an interrupt
\* or an error), whether or not the child exits of its own accord
C12_ClientEofShutsDown == (main_pc = "wait" /\ ~client_open) ~> ~Alive

Other(d) == IF d = C2S THEN S2C ELSE C2S

\* the pump of direction d has just left its loop through its except clause
Fails(d) == pump[d] = "running" /\ pump'[d] = "failed"

\* C13: a step in which one pump fails on an exception (which its except
\* clause logs) leaves the other pump and the main task where they were, and
\* the main task takes up an exception only in its own spawning of the child
\* and starting of the threads, never once it waits for the child
C13_PumpErrorIsolation ==
    [][/\ \A d \in Directions :
            Fails(d) => /\ pump'[Other(d)] = pump[Other(d)]
                        /\ main_pc' = main_pc
                        /\ UNCHANGED endVars
       /\ (leaving' = "raise" /\ leaving # "raise") => main_pc = "start"]_vars

\* one pump has failed while the other is still running with a line to
\* process and the main task still waits for the child
C13_Witness ==
    /\ pump[S2C] = "failed" /\ pump[C2S] = "running"
    /\ to_gateway > 0 /\ handled[C2S] > 0
    /\ main_pc = "wait"

\* the writes to sink made by the print of MessageParser.feed for a framed
\* substring whose parse raised
ParseErrorWrites(sink) == {i \in DOMAIN sink : sink[i].kind = "diagnostic" /\ sink[i].n = 0}

\* C14: a framed object that fails JSON decoding or schema validation
\* causes no write to the gateway's stdout and none to the child's stdin
C14_ParseErrorSilent == ParseErrorWrites(stdout) = {} /\ ParseErrorWrites(child_stdin) = {}

\* text a ends text b
IsSuffix(a, b) == Len(a) <= Len(b) /\ a = SubSeq(b, Len(b) - Len(a) + 1, Len(b))

\* C15: whatever was fed before it, malformed input included, a valid
\* message at the end of the stream has been emitted once the whole stream
\* was fed
C15_ParsingContinues ==
    pos = Len(input) =>
        \A v \in ValidPieces :
            IsSuffix(v, input) => emitted # <<>> /\ emitted[Len(emitted)].raw_message = v

\* brace depth counted outside strings: the tally after character f[i],
\* zeros the indexes of the closing braces that brought the depth to zero
TallyStep(t, f, i) ==
    IF t.escape THEN [t EXCEPT !.escape = FALSE]
    ELSE IF f[i] = BS THEN [t EXCEPT !.escape = TRUE]
    ELSE IF f[i] = Q THEN [t EXCEPT !.in_string = ~t.in_string]
    ELSE IF t.in_string \/ f[i] \notin {"{", "}"} THEN t
    ELSE IF f[i] = "{" THEN [t EXCEPT !.depth = t.depth + 1]
    ELSE [t EXCEPT !.depth = t.depth - 1,
                   !.zeros = IF t.depth = 1 THEN t.zeros \cup {i} ELSE t.zeros]

RECURSIVE TallyRange(_, _, _, _)
TallyRange(t, f, lo, hi) ==
    IF lo > hi THEN t
    ELSE IF lo = hi THEN TallyStep(t, f, lo)
    ELSE LET mid  == (lo + hi) \div 2
             left == TallyRange(t, f, lo, mid)
         IN  IF left.depth = left.depth THEN TallyRange(left, f, mid + 1, hi) ELSE left

Tally(f) ==
    TallyRange([depth |-> 0, in_string |-> FALSE, escape |-> FALSE, zeros |-> {}], f, 1, Len(f))

\* the last character of a text of n characters is the only closing brace
\* that brought the depth to zero
ClosesAt(t, n) == t.zeros = {n}

\* text f runs up to the closing brace that first returns the depth to zero
Completed(f) == ClosesAt(Tally(f), Len(f))

\* text is frames[i], frames[i+1], ... and rest, with nothing but
\* whitespace before each of them
RECURSIVE Conserved(_, _, _, _)
ConservedAt(t, frames, i, rest) ==
    IF i > Len(frames) THEN t = rest
    ELSE /\ IsPrefix(frames[i], t)
         /\ Conserved(SubSeq(t, Len(frames[i]) + 1, Len(t)), frames, i + 1, rest)

Conserved(text, frames, i, rest) == ConservedAt(lstrip(text), frames, i, rest)

\* a feed that found the buffer whole, framed new and emitted the messages out
NoPartial(whole, new, out) ==
    /\ Conserved(whole, new, 1, buffer')
    /\ \A k \in DOMAIN new : Completed(new[k])
    /\ \A k \in DOMAIN out : \E j \in DOMAIN new : out[k].raw_message = new[j]

\* C16: a feed emits only messages whose text runs up to the closing brace
\* that returns the brace depth (counted outside strings) to zero; what it
\* takes off the buffer is such texts and the whitespace before them, and
\* when the depth has not returned to zero it emits nothing and keeps the
\* buffered characters as they are, from the first that is not whitespace
C16_NoPartialEmission ==
    [][NoPartial(buffer \o SubSeq(input, pos + 1, pos'),
                 SubSeq(framed', Len(framed) + 1, Len(framed')),
                 SubSeq(emitted', Len(emitted) + 1, Len(emitted')))]_vars

\* a message has been emitted and the feed that followed ended inside the
\* next object, which is kept in the buffer
C16_Witness ==
    /\ emitted # <<>>
    /\ pos < Len(input)
    /\ buffer # <<>> /\ buffer[1] = "{"
    /\ IsSuffix(buffer, SubSeq(input, 1, pos))
    /\ Tally(buffer).zeros = {}

\* the streams of at most n complete messages, each followed by a newline
\* or directly by the next: text is the stream, raws the messages in order
RECURSIVE Batches(_)
Batches(n) ==
    IF n = 0 THEN {[text |-> <<>>, raws |-> <<>>]}
    ELSE Batches(n - 1) \cup
         {[text |-> b.text \o v \o sep, raws |-> Append(b.raws, v)] :
              b \in Batches(n - 1), v \in ValidPieces, sep \in {<<>>, <<NL>>}}

\* the raw texts of the messages out
Raws(out) == [k \in DOMAIN out |-> out[k].raw_message]

\* a feed on an empty buffer handed data returned the messages out
EmitsAll(data, out) == \A b \in Batches(MaxPieces) : data = b.text => Raws(out) = b.raws

\* C17: a feed handed several complete messages at once, back-to-back or
\* each followed by a newline, returns one ParsedMessage per object, in
\* stream order
C17_AllEmitted ==
    [][buffer = <<>> =>
           EmitsAll(SubSeq(input, pos + 1, pos'),
                    SubSeq(emitted', Len(emitted) + 1, Len(emitted')))]_vars

\* one feed call was handed a stream of two messages with no character
\* between them, and returned two messages
C17_Witness ==
    /\ fed_whole
    /\ \E a \in ValidPieces, b \in ValidPieces : input = a \o b
    /\ Len(emitted) = 2

-----------------------------------------------------------------------------
(* SpecParse: parse_message applied once to a JSON text                    *)

\* the member texts a JSON object is put together from, per key; <<>> is
\* the key left out
JsonrpcMembers == {<<>>, Member(W_jsonrpc, Str(W_2_0)), Member(W_jsonrpc, Str(<<"1", ".", "0">>)),
                   Member(W_jsonrpc, <<"2">>)}
IdMembers      == {<<>>, Member(W_id, <<"1">>), Member(W_id, Str(<<"a">>)), Member(W_id, W_null)}
MethodMembers  == {<<>>, Member(W_method, Str(<<"m">>)), Member(W_method, <<"1">>)}
ErrorMembers   ==
    {<<>>,
     Member(W_error, <<"{">> \o Member(W_code, <<"1">>) \o <<",">> \o Member(W_message, Str(<<"e">>)) \o <<"}">>),
     Member(W_error, <<"{">> \o Member(W_code, Str(<<"x">>)) \o <<"}">>)}
ResultMembers  == {<<>>, Member(W_result, <<"1">>)}

\* the members ms that are not left out, separated by commas
RECURSIVE Join(_)
Join(ms) ==
    IF ms = <<>> THEN <<>>
    ELSE IF Head(ms) = <<>> THEN Join(Tail(ms))
    ELSE LET rest == Join(Tail(ms))
         IN  IF rest = <<>> THEN Head(ms) ELSE Head(ms) \o <<",">> \o rest

ObjectTexts ==
    {<<"{">> \o Join(<<j, i, m, e, r>>) \o <<"}">> :
        j \in JsonrpcMembers, i \in IdMembers, m \in MethodMembers, e \in ErrorMembers, r \in ResultMembers}

\* JSON values that are not objects, one of them holding a message
NonObjectTexts ==
    { <<"1">>, Str(W_2_0), W_null, <<"[", "1", "]">>,
      <<"[">> \o RequestText(<<"1">>, <<"m">>, <<"a">>) \o <<"]">> }

ParseInit ==
    /\ input \in ObjectTexts \cup NonObjectTexts
    /\ pos = 0
    /\ buffer = <<>>
    /\ emitted = <<>>
    /\ framed = <<>>
    /\ cut_in_string = FALSE
    /\ cut_in_escape = FALSE
    /\ fed_whole = FALSE
    /\ config = DefaultConfig
    /\ ScanIdle
    /\ env = Healthy
    /\ GatewayIdle
    /\ MetricsIdle
    /\ LifeIdle

\* parse_message has returned p for the text input
Parsed(p) ==
    /\ pos = 0
    /\ pos' = Len(input)
    /\ emitted' = IF p.status = "ok" THEN <<p.msg>> ELSE <<>>
    /\ framed' = <<input>>
    /\ fed_whole' = TRUE
    /\ UNCHANGED <<input, buffer, cut_in_string, cut_in_escape,
                   config, scanVars, gwVars, metricsVars, lifeVars>>

\* parsed = self.parse_message(message)
ParseMessage == Parsed(parse_message(input))

ParseNext == ParseMessage

SpecParse == ParseInit /\ [][ParseNext]_vars

\* the text input names key as a member
Mentions(key) == Contains(input, Str(key) \o <<":">>)

\* the kind the fields present in the text input call for
KindByFields ==
    IF Mentions(W_method) THEN (IF Mentions(W_id) THEN "request" ELSE "notification")
    ELSE IF Mentions(W_error) THEN "error"
    ELSE IF Mentions(W_result) THEN "response"
    ELSE "none"

\* C18: a ParsedMessage returned by parse_message has the one kind its
\* fields call for: request for method with id, notification (with
\* message_id None) for method without id, otherwise error for error,
\* otherwise response for result; an object with none of method, error and
\* result gives no ParsedMessage
C18_KindByFields ==
    pos = Len(input) =>
        /\ \A k \in DOMAIN emitted :
               /\ emitted[k].message_type = KindByFields
               /\ emitted[k].message_type \in {"request", "notification", "error", "response"}
               /\ emitted[k].message_type = "notification" => emitted[k].message_id = JNull
        /\ KindByFields = "none" => emitted = <<>>

\* an object holding both error and result was parsed to an error response
C18_Witness ==
    /\ pos = Len(input)
    /\ Mentions(W_error) /\ Mentions(W_result)
    /\ emitted # <<>> /\ emitted[1].message_type = "error"

\* C19: a ParsedMessage is returned only for a JSON object whose jsonrpc
\* member is the string "2.0": never for an object with another jsonrpc
\* value or none, never for a JSON value that is not an object
C19_JsonRpc2Only ==
    pos = Len(input) /\ emitted # <<>> =>
        /\ input \in ObjectTexts
        /\ Contains(input, Member(W_jsonrpc, Str(W_2_0)))

\* an object with jsonrpc "2.0" was parsed to a response
C19_Witness ==
    /\ pos = Len(input)
    /\ Contains(input, Member(W_jsonrpc, Str(W_2_0)))
    /\ emitted # <<>> /\ emitted[1].message_type = "response"

\* the configuration has the scan of direction d switched off
SwitchedOff(conf, d) ==
    \/ ~conf.scanning.enabled
    \/ d = C2S /\ ~conf.scanning.scan_request
    \/ d = S2C /\ ~conf.scanning.scan_response

\* the same configuration with scanning, scan_request and scan_response on
AllOn(conf) ==
    WithSwitches(conf, [enabled |-> TRUE, scan_request |-> TRUE, scan_response |-> TRUE])

\* C20: scan_message returns the empty result when scanning is disabled or
\* the flag of the message's direction is off, whatever the rules and the
\* message; otherwise, the flag of the other direction on or off, it
\* returns what it returns with every switch on
C20_DirectionFiltering ==
    scanned =>
        scan_output = IF SwitchedOff(config, scan_direction) THEN NoViolations
                      ELSE scan_message(AllOn(config), scan_input, scan_direction)

\* a client->server message was scanned and found in violation while
\* scan_response was off
C20_Witness ==
    /\ scanned
    /\ scan_direction = C2S
    /\ config.scanning.enabled /\ config.scanning.scan_request /\ ~config.scanning.scan_response
    /\ scan_output.violations # <<>>

\* the indexes at which pat occurs in text, letter case ignored
Hits(text, pat) ==
    {i \in 1..(Len(text) - Len(pat) + 1) :
        \A k \in 1..Len(pat) : Lower(text[i + k - 1]) = Lower(pat[k])}

\* the indexes in the text at which vs records a match of the rule name
Starts(vs, name) == {vs[k].match_start + 1 : k \in {j \in DOMAIN vs : vs[j].rule_name = name}}

\* S is the non-overlapping occurrences among M, taken from the left, of a
\* pattern of n characters
LeftmostOf(S, M, n) ==
    /\ S \subseteq M
    /\ \A i \in M : i \in S <=> ~\E j \in S : j < i /\ i < j + n

\* the place of the rule name in rules
RuleIndex(rules, name) == CHOOSE k \in DOMAIN rules : rules[k].name = name

\* vs lists its violations by rule in the order of rules and, within a
\* rule, from left to right, none twice
InRuleOrder(vs, rules) ==
    \A a \in DOMAIN vs, b \in DOMAIN vs :
        a < b =>
            \/ RuleIndex(rules, vs[a].rule_name) < RuleIndex(rules, vs[b].rule_name)
            \/ vs[a].rule_name = vs[b].rule_name /\ vs[a].match_start < vs[b].match_start

\* vs is the evidence of a scan of text under rules
FullEvidence(vs, rules, text) ==
    /\ \A k \in DOMAIN vs : \E r \in DOMAIN rules : rules[r].name = vs[k].rule_name
    /\ \A k \in DOMAIN vs :
           vs[k].match = SubSeq(text, vs[k].match_start + 1, vs[k].match_end)
    /\ \A r \in DOMAIN rules :
           IF rules[r].enabled
           THEN LeftmostOf(Starts(vs, rules[r].name), Hits(text, rules[r].pattern), Len(rules[r].pattern))
           ELSE Starts(vs, rules[r].name) = {}
    /\ InRuleOrder(vs, rules)

\* C21: the result of a scan holds one violation for every non-overlapping
\* match of every enabled rule in the raw message, by rule in configuration
\* order, whatever the other rules matched and whatever the decision
C21_FullEvidence ==
    scanned /\ ~SwitchedOff(config, scan_direction) =>
        FullEvidence(scan_output.violations, config.scanning.rules, scan_input.raw_message)

\* a scan that blocks on its first rule and records the matches of a
\* Redact rule configured after it
C21_Witness ==
    /\ scanned
    /\ Len(scan_output.violations) >= 2
    /\ scan_output.violations[1].action = "block"
    /\ scan_output.violations[Len(scan_output.violations)].action = "redact"

\* result records a violation of a rule whose action is action
Records(result, action) == \E k \in DOMAIN result.violations : result.violations[k].action = action

\* C22: at the end of a scan should_block is true exactly when a recorded
\* violation has action Block, wherever in the list it stands: violations
\* of Log, Alert and Redact rules neither set it nor reset it
C22_BlockIffBlockViolation ==
    scanned => (scan_output.should_block <=> Records(scan_output, "block"))

\* a scan that blocked on its first violation and recorded a Log violation
\* last
C22_Witness ==
    /\ scanned
    /\ scan_output.should_block
    /\ Len(scan_output.violations) >= 2
    /\ scan_output.violations[1].action = "block"
    /\ scan_output.violations[Len(scan_output.violations)].action = "log"

\* no pattern of rules occurs in text
NoRuleMatches(rules, text) ==
    ~\E r \in DOMAIN rules : \E i \in 1..(Len(text) - Len(rules[r].pattern) + 1) :
        \A k \in 1..Len(rules[r].pattern) : Lower(text[i + k - 1]) = Lower(rules[r].pattern[k])

\* the forwards of message n of direction d in the sink of its direction
ForwardsOf(d, n) == Outputs(Sink(d), d, n, "forward")

\* message n of direction d, m with scan result s: modified_message only
\* after a Redact match, and the raw message forwarded when it was neither
\* redacted nor blocked
RawUnlessRedacted(d, n, m, s) ==
    /\ s.modified_message.some => Triggered(d, n, "redact")
    /\ ~Triggered(d, n, "redact") /\ ~s.should_block =>
           /\ \A i \in ForwardsOf(d, n) : Sink(d)[i].text = Line(m.raw_message)
           /\ Settled(d, n) => ForwardsOf(d, n) # {}

\* the scan of a message that no rule matches is the empty result, for
\* every message the pump of direction d decodes in this step
EmptyUnlessMatched(d) ==
    \A n \in DOMAIN decoded'[d] \ DOMAIN decoded[d] :
        NoRuleMatches(config.scanning.rules, decoded'[d][n].msg.raw_message) =>
            decoded'[d][n].scan = NoViolations

\* C23: modified_message is set only when a Redact rule matched; when no
\* rule matches the result has no violations, does not block and has no
\* modified_message; a message that no Redact rule matched and that is not
\* blocked is forwarded by its pump as it was received
C23_RawUnlessRedacted ==
    /\ [](\A d \in Directions : \A n \in DOMAIN decoded[d] :
             RawUnlessRedacted(d, n, decoded[d][n].msg, decoded[d][n].scan))
    /\ [][\A d \in Directions : EmptyUnlessMatched(d)]_vars

\* with the rules in force, the server->client pump is through with a
\* message that no rule matched and has forwarded it
C23_Witness ==
    \E n \in DOMAIN decoded[S2C] :
        /\ config.scanning.enabled
        /\ Settled(S2C, n)
        /\ decoded[S2C][n].scan = NoViolations
        /\ ForwardsOf(S2C, n) # {}

\* the rule of the configuration called name
RuleNamed(name) ==
    config.scanning.rules[CHOOSE r \in DOMAIN config.scanning.rules : config.scanning.rules[r].name = name]

\* entry is the {rule, severity, description} entry for violation v
DetailOf(entry, v) ==
    /\ DOMAIN entry = {"rule", "severity", "description"}
    /\ entry.rule = v.rule_name
    /\ entry.severity = RuleNamed(v.rule_name).severity
    /\ entry.description = RuleNamed(v.rule_name).description

\* resp is the block response to message m whose scan recorded vs
BlocksWith(resp, m, vs) ==
    /\ resp.jsonrpc = W_2_0
    /\ resp.id = m.message_id
    /\ resp.code = -32000
    /\ resp.message = BlockedText
    /\ Len(resp.violations) = Len(vs)
    /\ \A k \in DOMAIN vs : DetailOf(resp.violations[k], vs[k])

\* C24: the block response written for a blocked message is one JSON-RPC
\* error response with jsonrpc "2.0", the id of the blocked message, code
\* -32000, the message "Request blocked by security policy" and, in
\* error.data.violations, one {rule, severity, description} entry for each
\* violation of the scan result, in the same order
C24_BlockResponseShape ==
    \A i \in DOMAIN stdout :
        stdout[i].kind = "error" =>
            /\ stdout[i].n \in DOMAIN decoded[stdout[i].dir]
            /\ BlocksWith(stdout[i].resp, decoded[stdout[i].dir][stdout[i].n].msg,
                          decoded[stdout[i].dir][stdout[i].n].scan.violations)
            /\ Cardinality(Outputs(stdout, stdout[i].dir, stdout[i].n, "error")) = 1

\* a block response listing the violations of two different rules has been
\* written
C24_Witness ==
    \E i \in DOMAIN stdout :
        /\ stdout[i].kind = "error"
        /\ Len(stdout[i].resp.violations) = 2
        /\ stdout[i].resp.violations[1].rule # stdout[i].resp.violations[2].rule

\* an id as it is written in a message
IdText(id) == IF id.t = "str" THEN Str(id.v) ELSE IF id.t = "int" THEN id.v ELSE W_null

\* text carries the member "id" with the value id
CarriesId(text, id) == Contains(text, Member(W_id, IdText(id)))

\* message n of direction d, with the id id: the id is the one received,
\* every forward of the message carries it and every block response to it
\* echoes it, type and value
IdKept(d, n, id) ==
    /\ CarriesId(decoded[d][n].msg.raw_message, id)
    /\ \A i \in ForwardsOf(d, n) : CarriesId(Sink(d)[i].text, id)
    /\ \A i \in Outputs(stdout, d, n, "error") : stdout[i].resp.id = id

\* C25: the id of a message is kept as received, an integer an integer and
\* a string a string, by the parser, in the message forwarded and in the
\* block response
C25_IdsPreserved ==
    \A d \in Directions : \A n \in DOMAIN decoded[d] :
        decoded[d][n].msg.message_id # JNull => IdKept(d, n, decoded[d][n].msg.message_id)

-----------------------------------------------------------------------------
(* SpecBatch: one MessageParser fed a JSON-RPC batch (a top-level array),  *)
(* then complete messages, in arbitrary chunks                             *)

\* [] and arrays of one and of two valid messages, each as a line
BatchTexts ==
    { <<"[", "]", NL>>,
      <<"[">> \o RequestText(<<"1">>, <<"m">>, <<"a">>) \o <<"]", NL>>,
      <<"[">> \o RequestText(<<"1">>, <<"m">>, <<"a">>) \o <<",">>
              \o NotificationText(<<"n">>, <<BS, Q, "}">>) \o <<"]", NL>> }

BatchInit ==
    /\ input \in {bt \o f.text : bt \in BatchTexts, f \in Batches(MaxPieces)}
    /\ pos = 0
    /\ buffer = <<>>
    /\ emitted = <<>>
    /\ framed = <<>>
    /\ cut_in_string = FALSE
    /\ cut_in_escape = FALSE
    /\ fed_whole = FALSE
    /\ config = DefaultConfig
    /\ ScanIdle
    /\ env = Healthy
    /\ GatewayIdle
    /\ MetricsIdle
    /\ LifeIdle

SpecBatch == BatchInit /\ [][FeedNext]_vars

\* C27: once a stream that begins with a batch was fed, the messages emitted
\* are the valid messages that follow the batch, in order: none for the
\* batch, none for its elements, and none of the followers missing
C27_BatchDropped ==
    pos = Len(input) =>
        \A bt \in BatchTexts, f \in Batches(MaxPieces) :
            input = bt \o f.text => Raws(emitted) = f.raws

-----------------------------------------------------------------------------
(* SpecAlert: a message is scanned and, when the scan found violations,    *)
(* AlertManager.send_alert is called for it                                *)

\* self._send_webhook(alert_data): requests.post, whose failure is caught
Webhook(webhook_fails) == [transport |-> "webhook", sent |-> ~webhook_fails]

\* self._send_email(alert_data)
Email == [transport |-> "email", sent |-> TRUE]

\* send_alert with the e-mail as a fallback of the webhook
send_alert_either(conf, webhook_fails) ==
    IF ~conf.alerting.enabled THEN <<>>
    ELSE IF conf.alerting.webhook_url THEN <<Webhook(webhook_fails)>>
    ELSE IF conf.alerting.email THEN <<Email>>
    ELSE <<>>

\* AlertManager.send_alert: the transports called, in order
send_alert(conf, webhook_fails) ==
    IF ~conf.alerting.enabled THEN <<>>
    ELSE (IF conf.alerting.webhook_url THEN <<Webhook(webhook_fails)>> ELSE <<>>)
         \o (IF conf.alerting.email THEN <<Email>> ELSE <<>>)

\* the settings of AlertingConfig: enabled, a webhook_url or none, an email
\* address or none
Alertings == [enabled : BOOLEAN, webhook_url : BOOLEAN, email : BOOLEAN]

AlertInit ==
    /\ config \in {[GatewayConfig(<<r>>) EXCEPT !.alerting = al] :
                       r \in RuleCatalogue, al \in Alertings}
    /\ env \in {Healthy, [Healthy EXCEPT !.webhook_fails = TRUE]}
    /\ scan_input \in {parse_message(t).msg : t \in ScanTexts}
    /\ scan_direction \in {"client->server", "server->client"}
    /\ scan_output = NoViolations
    /\ scanned = FALSE
    /\ rescanned = FALSE
    /\ alerted = FALSE
    /\ alerts = <<>>
    /\ FeedIdle
    /\ GatewayIdle
    /\ MetricsIdle
    /\ LifeIdle

\* scan_result = self.scanner.scan_message(message, direction)
AlertScan ==
    /\ ~scanned
    /\ ScanMessage

\* if scan_result.has_violations(): self.alert_manager.send_alert(...)
SendAlert ==
    /\ scanned
    /\ ~alerted
    /\ scan_output.violations # <<>>
    /\ alerted' = TRUE
    /\ alerts' = send_alert(config, env.webhook_fails)
    /\ UNCHANGED <<feedVars, config, scan_input, scan_direction, scan_output, scanned, rescanned,
                   gwVars, metricsVars, lifeVars>>

AlertNext == AlertScan \/ SendAlert

SpecAlert == AlertInit /\ [][AlertNext]_vars

\* the transports called for the message
Fired == {alerts[i].transport : i \in DOMAIN alerts}

\* C28 as stated: for a message with violations at most one of the two
\* transports, webhook and e-mail, is called, also when both are configured
C28_AtMostOneTransport == Cardinality(Fired) <= 1

\* C28: once send_alert has returned for a message with violations, the
\* webhook was called exactly once iff alerting is enabled and a webhook URL
\* is configured, the e-mail backend exactly once iff alerting is enabled
\* and an address is configured, the webhook first; with both configured
\* both are called, and a webhook that fails does not keep the e-mail back
C28_EachConfiguredTransport ==
    alerted =>
        /\ "webhook" \in Fired <=> (config.alerting.enabled /\ config.alerting.webhook_url)
        /\ "email" \in Fired <=> (config.alerting.enabled /\ config.alerting.email)
        /\ Len(alerts) = Cardinality(Fired)
        /\ Len(alerts) = 2 => alerts[1].transport = "webhook"

\* both transports are configured, the webhook post failed and the e-mail
\* backend was called all the same
C28_Witness ==
    /\ alerted
    /\ Len(alerts) = 2
    /\ ~alerts[1].sent
    /\ alerts[2].transport = "email"

-----------------------------------------------------------------------------
\* the gateway process has ended
Exited == exit_code # -1

\* C29: a spawn that fails leaves both pumps unstarted, logs the error and
\* ends the process with status 1, and nothing but an exception raised in
\* start() gives status 1; a keyboard interrupt ends it with status 0; when
\* the child exits of its own accord, start() returns after _cleanup with no
\* signal sent and the process ends with status 0
C29_ExitStatus ==
    /\ child = "none" => \A d \in Directions : pump[d] = "unstarted"
    /\ Exited =>
        /\ exit_code = 1 <=> leaving = "raise"
        /\ child = "none" => exit_code = 1 /\ main_log = <<"error", "shutdown">>
        /\ leaving = "interrupt" => exit_code = 0 /\ main_pc = "interrupted"
        /\ leaving = "return" =>
               exit_code = 0 /\ main_pc = "returned" /\ child = "exited" /\ signals = <<>>

\* the process ended with status 1 after a spawn that failed
C29_Witness == Exited /\ child = "none" /\ exit_code = 1

\* the number of times _cleanup has begun
Cleanups == Len(SelectSeq(main_log, LAMBDA e : e = "shutdown"))

\* C30: once start() has left after a successful spawn, by return, exception
\* or keyboard interrupt, _cleanup has run exactly once; a child found
\* running was sent terminate and, if it had not exited when the grace
\* period ended, kill after it, and a child that exited before was sent
\* nothing; no child that is still alive was sent no signal, and none is
\* sent a signal outside _cleanup
C30_ChildReleased ==
    /\ signals \in {<<>>, <<"terminate">>, <<"terminate", "kill">>}
    /\ signals # <<>> => Cleanups = 1
    /\ (~Alive /\ child # "none") =>
          /\ Cleanups = 1
          /\ child = "running" => signals = <<"terminate", "kill">>
          /\ signals = <<>> => child = "exited"

\* start() was left by a keyboard interrupt with a child that ignored
\* terminate and was killed after the grace period
C30_Witness ==
    /\ main_pc = "interrupted"
    /\ signals = <<"terminate", "kill">>
    /\ child = "running"

-----------------------------------------------------------------------------
\* the pump of direction d completes the forward of a message in this step:
\* a write of kind "forward" is appended to the sink of its direction
ForwardCompletes(d) ==
    /\ Len(Sink(d)') = Len(Sink(d)) + 1
    /\ Sink(d)'[Len(Sink(d)')].dir = d
    /\ Sink(d)'[Len(Sink(d)')].kind = "forward"

\* every message of the other direction forwarded before this step has its
\* audit record before the audit record of message n of direction d
AuditedAfterEarlierForwards(d, n) ==
    \A i \in Forwards(Other(d)) :
        \A a \in AuditRecords(d, n), b \in AuditRecords(Other(d), Sink(Other(d))[i].n) : b < a

\* C31: when a pump completes the forward of a message, the audit records of
\* the messages of the other direction whose forwards were completed before
\* come before the audit record of that message: across the two directions
\* the audit log has the order in which the forwards completed
C31_CrossDirectionAuditOrder ==
    [][\A d \in Directions :
           ForwardCompletes(d) => AuditedAfterEarlierForwards(d, Sink(d)'[Len(Sink(d)')].n)]_vars

-----------------------------------------------------------------------------
(* SpecCompile: a scanner built from a configuration in which a pattern    *)
(* may fail to compile scans a message                                     *)

\* a rule whose pattern does not compile, a Redact, a Block and a Log rule,
\* and a disabled rule
CompileCatalogue ==
    { ScanRule(<<"p">>, <<"(">>,      "block",  "high"),
      ScanRule(<<"x">>, <<"x">>,      "redact", "low"),
      ScanRule(<<"b">>, <<"y", "y">>, "block",  "critical"),
      ScanRule(<<"l">>, <<"Y">>,      "log",    "low"),
      [ScanRule(<<"d">>, <<"y">>,     "block",  "critical") EXCEPT !.enabled = FALSE] }

\* the lists of at most n distinct rules of the catalogue
RECURSIVE CompileRuleSets(_)
CompileRuleSets(n) ==
    IF n = 0 THEN {<<>>}
    ELSE CompileRuleSets(n - 1) \cup
         UNION {{Append(rs, r) : r \in CompileCatalogue \ Range(rs)} :
                    rs \in {q \in CompileRuleSets(n - 1) : Len(q) = n - 1}}

\* the strings of at most n characters a message carries, "(" among them
RECURSIVE CompileArgs(_)
CompileArgs(n) ==
    IF n = 0 THEN {<<>>}
    ELSE CompileArgs(n - 1) \cup {Append(a, c) : a \in CompileArgs(n - 1), c \in {"x", "y", "("}}

CompileInit ==
    /\ config \in {GatewayConfig(rs) : rs \in CompileRuleSets(MaxRules)}
    /\ scan_input \in {parse_message(RequestText(<<"1">>, <<"m">>, a)).msg : a \in CompileArgs(MaxArg)}
    /\ scan_direction \in {"client->server", "server->client"}
    /\ scan_output = NoViolations
    /\ scanned = FALSE
    /\ rescanned = FALSE
    /\ alerted = FALSE
    /\ alerts = <<>>
    /\ FeedIdle
    /\ env = Healthy
    /\ GatewayIdle
    /\ MetricsIdle
    /\ LifeIdle

SpecCompile == CompileInit /\ [][ScanNext]_vars

\* vs is the evidence of a scan of text by a scanner that kept the rules of
\* rules that are enabled and whose pattern compiles
KeptEvidence(vs, rules, text) ==
    /\ \A r \in DOMAIN rules :
           IF rules[r].enabled /\ Compiles(rules[r].pattern)
           THEN LeftmostOf(Starts(vs, rules[r].name), Hits(text, rules[r].pattern), Len(rules[r].pattern))
           ELSE Starts(vs, rules[r].name) = {}
    /\ InRuleOrder(vs, rules)

\* C32: a scan records the matches of exactly the rules that are enabled
\* and whose pattern compiles, by rule in configuration order: a rule whose
\* pattern does not compile records nothing and takes no other rule with
\* it, before it or after it, and a disabled rule records nothing
C32_KeptRules ==
    scanned => KeptEvidence(scan_output.violations, config.scanning.rules, scan_input.raw_message)

\* the pattern of the first rule does not compile, the message holds the
\* text of that pattern, and the second rule recorded a violation
C32_Witness ==
    /\ scanned
    /\ Len(config.scanning.rules) = 2
    /\ ~Compiles(config.scanning.rules[1].pattern)
    /\ Hits(scan_input.raw_message, config.scanning.rules[1].pattern) # {}
    /\ scan_output.violations # <<>>

-----------------------------------------------------------------------------
\* the webhook posts made for message n of direction d
Posts(d, n) == {i \in DOMAIN alerts : alerts[i].dir = d /\ alerts[i].n = n}

\* the prints of the e-mail placeholder for message n of direction d
Emails(d, n) == {i \in Outputs(stdout, d, n, "diagnostic") : stdout[i].text = EmailAlertText}

\* message n of direction d is to be alerted on
ToAlert(d, n) == decoded[d][n].scan.violations # <<>> /\ config.alerting.enabled

\* the pump of direction d has carried out its decision on message n: the
\* block response of a blocked message that has an id, the forward of a
\* message that is not blocked
Decided(d, n) ==
    IF decoded[d][n].scan.should_block
    THEN decoded[d][n].msg.message_id # JNull => Outputs(stdout, d, n, "error") # {}
    ELSE ForwardsOf(d, n) # {}

\* C33: a transport is called for a message only if its scan recorded a
\* violation and alerting is enabled, and at most once, also when the post
\* fails; once the pump is through with the message every configured
\* transport was called for it if it is to be alerted on, its audit record
\* is written (auditing in force) and its block response or forward is
\* made, whether the post failed or not
C33_AlertDispatch ==
    \A d \in Directions : \A n \in DOMAIN decoded[d] :
        /\ Cardinality(Posts(d, n)) <= 1 /\ Cardinality(Emails(d, n)) <= 1
        /\ Posts(d, n) \cup Emails(d, n) # {} => ToAlert(d, n)
        /\ Settled(d, n) =>
              /\ (ToAlert(d, n) /\ config.alerting.webhook_url) => Posts(d, n) # {}
              /\ (ToAlert(d, n) /\ config.alerting.email) => Emails(d, n) # {}
              /\ AuditInForce => AuditRecords(d, n) # {}
              /\ Decided(d, n)

\* the webhook post for a message failed; the pump wrote the audit record
\* and the forward of that message and is through with the message it
\* decoded next as well
C33_Witness ==
    \E d \in Directions : \E n \in DOMAIN decoded[d] :
        /\ n + 1 \in DOMAIN decoded[d]
        /\ Settled(d, n) /\ Settled(d, n + 1)
        /\ \E i \in Posts(d, n) : ~alerts[i].sent
        /\ AuditRecords(d, n) # {} /\ ForwardsOf(d, n) # {}
        /\ AuditRecords(d, n + 1) # {}

-----------------------------------------------------------------------------
\* C34: whenever no pump is inside a metrics call, so after any run, the
\* counter violations[b] holds the number of violations the pumps found for
\* rule b, and blocked_messages the number of those whose action is Block
\* (rule b is a Block rule: all of them)
C34_ViolationAccounting ==
    (\A d \in Directions : counting[d] = <<>>) =>
        /\ metrics["violations[b]"] = recorded[C2S].violations + recorded[S2C].violations
        /\ metrics["blocked_messages"] = recorded[C2S].violations + recorded[S2C].violations

-----------------------------------------------------------------------------
\* the write at position i of sys.stdout is the forward of a server->client
\* message the pump decoded, raw or redacted, with its line end
IsForwardToClient(i) ==
    /\ stdout[i].kind = "forward" /\ stdout[i].dir = S2C
    /\ stdout[i].n \in DOMAIN decoded[S2C]
    /\ stdout[i].text = Line(message_to_send(decoded[S2C][stdout[i].n].msg, decoded[S2C][stdout[i].n].scan))

\* the write at position i of sys.stdout is the block response to a message
\* a pump decoded and blocked
IsBlockResponse(i) ==
    /\ stdout[i].kind = "error"
    /\ stdout[i].n \in DOMAIN decoded[stdout[i].dir]
    /\ stdout[i] = BlockWritten(stdout[i].dir, stdout[i].n)

\* C35: everything written to the gateway's stdout is a forwarded
\* server->client message or a synthesized block response; no diagnostic
\* (parse error, webhook failure, e-mail alert) is written there
C35_StdoutPurity == \A i \in DOMAIN stdout : IsForwardToClient(i) \/ IsBlockResponse(i)


-----------------------------------------------------------------------------
(* SpecBlock: the two pumps of Spec fed messages of every kind that the    *)
(* Block rule matches, with an id, with the id null and without an id      *)

\* {"jsonrpc":"2.0","id":<id>,"error":{"code":1,"message":"<arg>"}}
ErrorResponseText(id, arg) ==
    Envelope \o Member(W_id, id) \o <<",">>
             \o Member(W_error, <<"{">> \o Member(W_code, <<"1">>) \o <<",">>
                                        \o Member(W_message, Str(arg)) \o <<"}">>)
             \o <<"}">>

\* what the client sends: requests with the id 4 and the id null and a
\* notification, all three matching the Block rule, and a request no rule matches
BlockClientLines ==
    { Line(RequestText(<<"4">>, <<"m">>, <<"y", "y">>)),
      Line(RequestText(W_null, <<"m">>, <<"y", "y">>)),
      Line(NotificationText(<<"m">>, <<"y", "y">>)),
      Line(RequestText(<<"6">>, <<"m">>, <<"x">>)) }

\* what the child sends: a response with the id 2, an error response with
\* the id "e" and a response with the id null, all three matching the
\* Block rule, and a response no rule matches
BlockServerLines ==
    { Line(ResponseText(<<"2">>, <<"y", "y">>)),
      Line(ErrorResponseText(Str(<<"e">>), <<"y", "y">>)),
      Line(ResponseText(W_null, <<"y", "y">>)),
      Line(ResponseText(<<"3">>, <<"x">>)) }

\* the gateway as configured by default, with the e-mail alert, and with a
\* webhook whose post fails
BlockProfiles ==
    { [config |-> GatewayConfig(GatewayRules), env |-> Healthy],
      [config |-> [GatewayConfig(GatewayRules) EXCEPT !.alerting.enabled = TRUE, !.alerting.email = TRUE],
       env |-> Healthy],
      [config |-> [GatewayConfig(GatewayRules) EXCEPT !.alerting.enabled = TRUE, !.alerting.webhook_url = TRUE],
       env |-> [Healthy EXCEPT !.webhook_fails = TRUE]] }

BlockInit ==
    /\ \E p \in BlockProfiles : config = p.config /\ env = p.env
    /\ GatewayIdle
    /\ MetricsIdle
    /\ LifeIdle
    /\ FeedIdle
    /\ ScanIdle

\* line = readline(); messages = parser.feed(line), with the scan of each message
ReadBlockLine(d) ==
    /\ AtReadLine(d)
    /\ nread[C2S] + nread[S2C] < MaxLines
    /\ \E line \in (IF d = C2S THEN BlockClientLines ELSE BlockServerLines) :
          LineFed(d, feed(parser_buffer[d], line))

BlockNext ==
    \/ \E d \in Directions : ReadBlockLine(d)
    \/ \E d \in Directions : EndOfInput(d)
    \/ \E d \in Directions : WriteStdout(d)
    \/ \E d \in Directions : FlushStdout(d)
    \/ WriteChildStdin
    \/ \E d \in Directions : PostWebhook(d)
    \/ \E d \in Directions : Audit(d)

SpecBlock == BlockInit /\ [][BlockNext]_vars

\* every write to the gateway's stdout or to the child's stdin made for
\* message n of direction d
AnyOutput(d, n) ==
    {<<"stdout", i>> : i \in {j \in DOMAIN stdout : stdout[j].dir = d /\ stdout[j].n = n}}
        \cup {<<"stdin", i>> : i \in {j \in DOMAIN child_stdin : child_stdin[j].dir = d /\ child_stdin[j].n = n}}

\* C36: a blocked message with an id, whatever its type and direction, is
\* never forwarded, gets at most one error response on the gateway's
\* stdout, and once its pump is through with it exactly one, carrying its
\* id; for a blocked message whose id is absent or null nothing at all is
\* written to the gateway's stdout or to the child's stdin
C36_BlockResponseById ==
    \A d \in Directions : \A n \in DOMAIN decoded[d] :
        decoded[d][n].scan.should_block =>
            IF decoded[d][n].msg.message_id # JNull
            THEN /\ NotForwarded(d, n)
                 /\ Cardinality(Outputs(stdout, d, n, "error")) <= 1
                 /\ Outputs(child_stdin, d, n, "error") = {}
                 /\ \A i \in Outputs(stdout, d, n, "error") : stdout[i].resp.id = decoded[d][n].msg.message_id
                 /\ Settled(d, n) => OneBlockResponse(d, n)
            ELSE AnyOutput(d, n) = {}



\* the error responses written for message n of direction d
AnswersOf(d, n) ==
    {<<"stdout", i>> : i \in Outputs(stdout, d, n, "error")}
        \cup {<<"stdin", i>> : i \in Outputs(child_stdin, d, n, "error")}

\* C37: at no time has a decoded message been forwarded twice, answered
\* twice, or both forwarded and answered; once its pump is through with it,
\* either it was written once to its forwarding sink and nothing else was
\* written for it there or as an answer, or it was answered by one error
\* response and not forwarded, or nothing at all was written for it
C37_OneOutcome ==
    \A d \in Directions : \A n \in DOMAIN decoded[d] :
        /\ Cardinality(ForwardsOf(d, n)) + Cardinality(AnswersOf(d, n)) <= 1
        /\ Settled(d, n) =>
              \/ Cardinality(ForwardsOf(d, n)) = 1
              \/ Cardinality(AnswersOf(d, n)) = 1
              \/ AnyOutput(d, n) = {}



-----------------------------------------------------------------------------
(* SpecPipe: the two pumps of Spec with a child that can exit while they   *)
(* run.  The child's stdin is a pipe: once the child has exited, the write *)
(* and flush of the client->server pump raise BrokenPipeError, which the   *)
(* except clause of the pump catches.                                      *)

\* start() is in server_process.wait(): the child and both pumps run; the
\* gateway audits, and alerts through a webhook whose post fails
PipeInit ==
    /\ config = [GatewayConfig(GatewayRules) EXCEPT !.alerting.enabled = TRUE, !.alerting.webhook_url = TRUE]
    /\ env = [Healthy EXCEPT !.webhook_fails = TRUE]
    /\ GatewayIdle
    /\ MetricsIdle
    /\ FeedIdle
    /\ ScanIdle
    /\ main_pc = "wait"
    /\ child = "running"
    /\ child_stays = FALSE
    /\ client_open = TRUE
    /\ pump = [d \in Directions |-> "running"]
    /\ to_gateway = 0
    /\ from_child = 0
    /\ written = [d \in Directions |-> 0]
    /\ handled = [d \in Directions |-> 0]
    /\ leaving = "none"
    /\ main_log = <<>>
    /\ signals = <<>>
    /\ exit_code = -1

\* self.server_process.stdin.write(...) or .flush() raises: the rest of the
\* iteration is skipped and the pump ends in its except clause
WriteChildStdinFails ==
    /\ NextIs(C2S, "stdin")
    /\ child = "exited"
    /\ todo' = [todo EXCEPT ![C2S] = <<>>]
    /\ PumpLeaves(C2S, "failed")
    /\ UNCHANGED <<feedVars, config, scanVars, metricsVars, endVars, env, eof, nread, parser_buffer, decoded,
                   stdout, flushed, child_stdin, audit_log,
                   main_pc, child, child_stays, client_open, to_gateway, from_child, written, handled>>

PipeNext ==
    \/ \E d \in Directions : pump[d] = "running" /\ ReadLine(d)
    \/ \E d \in Directions : pump[d] = "running" /\ EndOfInput(d)
    \/ \E d \in Directions : WriteStdout(d)
    \/ \E d \in Directions : FlushStdout(d)
    \/ child = "running" /\ WriteChildStdin
    \/ WriteChildStdinFails
    \/ \E d \in Directions : PostWebhook(d)
    \/ \E d \in Directions : Audit(d)
    \/ ChildExits

SpecPipe == PipeInit /\ [][PipeNext]_vars

\* C38: once a pump is through with a message, an audit record of it with
\* blocked false has its message, raw or redacted, written to the
\* forwarding sink of its direction
C38_AuditTruthful ==
    \A i \in DOMAIN audit_log :
        (~audit_log[i].blocked /\ Settled(audit_log[i].direction, audit_log[i].n)) =>
            ForwardsOf(audit_log[i].direction, audit_log[i].n) # {}



\* C39: when start() has returned after the child's exit and the two joins,
\* the server->client pump, unless it failed, has taken every line the
\* child wrote to its stdout
C39_NoLossAtShutdown ==
    (main_pc = "returned" /\ pump[S2C] # "failed") => (from_child = 0 /\ handled[S2C] = written[S2C])



\* the pump of direction d has left its loop, by break or through its except clause
Ended(d) == eof[d] \/ pump[d] = "failed"

\* the server->client pump is through with its message n, which has its
\* audit record (auditing being in force) and was forwarded once to the
\* gateway's stdout unless it was blocked
Processed(n) ==
    /\ Settled(S2C, n)
    /\ AuditInForce => Cardinality(AuditRecords(S2C, n)) = 1
    /\ IF decoded[S2C][n].scan.should_block
       THEN NotForwarded(S2C, n)
       ELSE \E i \in 1..flushed :
               /\ stdout[i].dir = S2C /\ stdout[i].n = n /\ stdout[i].kind = "forward"
               /\ stdout[i].text = Line(message_to_send(decoded[S2C][n].msg, decoded[S2C][n].scan))

\* the step in which pump d leaves its loop changes nothing of the other
\* pump (its parser buffer, the line it is working on, its messages, its
\* state) and nothing of the streams and the audit log
EndsAlone(d) ==
    (Ended(d)' /\ ~Ended(d)) =>
        /\ parser_buffer'[Other(d)] = parser_buffer[Other(d)]
        /\ todo'[Other(d)] = todo[Other(d)]
        /\ decoded'[Other(d)] = decoded[Other(d)]
        /\ eof'[Other(d)] = eof[Other(d)]
        /\ pump'[Other(d)] = pump[Other(d)]
        /\ UNCHANGED <<stdout, flushed, child_stdin, audit_log>>

\* C40: once the client->server pump has left its loop, every message the
\* server->client pump is through with has been processed in full: audited,
\* and forwarded unless blocked; and the step in which a pump leaves its
\* loop changes nothing of the other pump, of the streams or of the audit log
C40_HalfClose ==
    /\ [](Ended(C2S) => \A n \in DOMAIN decoded[S2C] : Settled(S2C, n) => Processed(n))
    /\ [][\A d \in Directions : EndsAlone(d)]_vars

\* the client closed its end before sending anything, the child still runs,
\* and the server->client pump has read two lines and processed the three
\* messages they held, one of them forwarded
C40_Witness ==
    /\ eof[C2S] /\ nread[C2S] = 0
    /\ child = "running" /\ ~eof[S2C]
    /\ nread[S2C] = 2
    /\ Len(decoded[S2C]) = 3
    /\ \A n \in DOMAIN decoded[S2C] : Processed(n)
    /\ \E n \in DOMAIN decoded[S2C] : ~decoded[S2C][n].scan.should_block


=============================================================================
